---- MODULE Spec2Model ----
(***************************************************************************)
(* Model of the YAML fixture processor: the reference analysis of          *)
(* CircularReferenceResolver and the two-phase materialization run of      *)
(* YamlFixtureProcessor.processFixtures against the admin API (Spec), and  *)
(* the runs over a directory of fixture files with @depends and @includes  *)
(* directives, array requests, the loader cache and cleanup (SpecFiles).   *)
(* Further specifications run parts of the program over inputs of their    *)
(* own: the loader alone (SpecLoader), range expansion with object         *)
(* identity (SpecExpand), phase 2 over any plan (SpecUpdates), references  *)
(* at any depth (SpecData), files naming each other in a round             *)
(* (SpecChains) and plans over any reference graph (SpecPlans).            *)
(*                                                                         *)
(* Documents are trees of uniform nodes [t, s, kids]:                      *)
(*   t = "str"  a string that does not start with "@"   (s = the string)   *)
(*   t = "ref"  the string "@" + s                                         *)
(*   t = "map"  a mapping, kids = <<key, node>> pairs in insertion order   *)
(*   t = "seq"  a sequence, kids = <<"", node>> pairs                      *)
(*   t = "null" null / undefined                                           *)
(* JS Maps and plain objects are sequences of <<key, value>> pairs with    *)
(* unique keys, kept in insertion order.                                   *)
(***************************************************************************)
EXTENDS Naturals, Sequences, FiniteSets, TLC

\* ------------------------------------------------------------------ bounds

\* number of fixtures of the loaded fixture map
MaxFixtures == 2

\* last index of the one range key "P_{1...RangeEnd}" of the input menu
RangeEnd == 2

\* ------------------------------------------------------- ordered maps (JS)

MapHas(m, k) == \E j \in 1..Len(m) : m[j][1] = k

MapGet(m, k) == m[CHOOSE j \in 1..Len(m) : m[j][1] = k][2]

MapSet(m, k, v) ==
  IF MapHas(m, k)
    THEN [j \in 1..Len(m) |-> IF m[j][1] = k THEN <<k, v>> ELSE m[j]]
    ELSE Append(m, <<k, v>>)

MapDelete(m, k) == SelectSeq(m, LAMBDA p : p[1] # k)

MapKeys(m) == {m[j][1] : j \in 1..Len(m)}

RECURSIVE MapSetAll(_, _)
\* { ...m, ...pairs }: every pair of `pairs` set into m, in order
MapSetAll(m, pairs) ==
  IF pairs = <<>> THEN m
  ELSE MapSetAll(MapSet(m, pairs[1][1], pairs[1][2]), Tail(pairs))

\* ---------------------------------------------------------------- documents

Null == [t |-> "null", s |-> "", kids |-> <<>>]
Str(x) == [t |-> "str", s |-> x, kids |-> <<>>]
Ref(n) == [t |-> "ref", s |-> n, kids |-> <<>>]
Obj(pairs) == [t |-> "map", s |-> "", kids |-> pairs]
Arr(items) == [t |-> "seq", s |-> "", kids |-> [j \in 1..Len(items) |-> <<"", items[j]>>]]

\* JS truthiness of a document value (`if (fixture.data)`)
Truthy(d) == d.t \in {"map", "seq", "ref"} \/ (d.t = "str" /\ d.s # "")

RECURSIVE HasToken(_, _)
\* the literal string "@n" occurs somewhere in document d
HasToken(d, n) ==
  \/ d.t = "ref" /\ d.s = n
  \/ \E j \in 1..Len(d.kids) : HasToken(d.kids[j][2], n)

RECURSIVE Tokens(_)
\* the names n whose literal "@n" occurs somewhere in document d
Tokens(d) ==
  IF d.t = "ref" THEN {d.s}
  ELSE UNION {Tokens(d.kids[j][2]) : j \in 1..Len(d.kids)}

\* ------------------------------------------------ CircularReferenceResolver

RECURSIVE extractReferences(_)
RECURSIVE extractKids(_, _)
\* the (field, reference) pairs the callback receives, in call order
extractReferences(obj) ==
  IF obj.t = "ref" THEN << <<"", obj.s>> >>
  ELSE IF obj.t = "seq" THEN extractKids(obj.kids, FALSE)
  ELSE IF obj.t = "map" THEN extractKids(obj.kids, TRUE)
  ELSE <<>>

extractKids(kids, isObject) ==
  IF kids = <<>> THEN <<>>
  ELSE LET key == kids[1][1]
           value == kids[1][2]
           here == IF isObject /\ value.t = "ref"
                     THEN << <<key, value.s>> >>
                     ELSE extractReferences(value)
       IN here \o extractKids(Tail(kids), isObject)

\* deps of getDirectDependencies, as a set (the list is only iterated)
getDirectDependencies(data) ==
  LET refs == extractReferences(data) IN {refs[j][2] : j \in 1..Len(refs)}

RECURSIVE createsCycle(_, _, _, _)
createsCycle(entities, source, target, visited) ==
  IF source = target THEN TRUE
  ELSE IF target \in visited THEN FALSE
  ELSE IF ~MapHas(entities, target) THEN FALSE
  ELSE LET targetEntity == MapGet(entities, target) IN
       IF ~Truthy(targetEntity.fixture.data) THEN FALSE
       ELSE \E dep \in getDirectDependencies(targetEntity.fixture.data) :
              /\ MapHas(entities, dep)
              /\ createsCycle(entities, source, dep, visited \cup {target})

\* faulty variant: the target is not added to the visited set
visit_forgotten(visited, target) == visited

\* visited.add(target)
visit(visited, target) == visited \cup {target}

RECURSIVE searchPaths(_, _, _, _, _)
RECURSIVE searchDeps(_, _, _, _, _, _)
\* the search paths of createsCycle(source, target, visited): for every call
\* that passes both guards, the targets of the calls it is nested in and its
\* own; `path` holds the targets of the enclosing calls. A path is followed
\* no further than one call beyond the number of entities
searchPaths(entities, source, target, visited, path) ==
  IF source = target THEN {}
  ELSE IF target \in visited THEN {}
  ELSE LET here == Append(path, target)
           targetEntity == MapGet(entities, target)
       IN IF Len(here) > Len(entities) THEN {here}
          ELSE IF ~MapHas(entities, target) THEN {here}
          ELSE IF ~Truthy(targetEntity.fixture.data) THEN {here}
          ELSE {here} \cup searchDeps(entities, source,
                                      extractReferences(targetEntity.fixture.data), 1,
                                      visit(visited, target), here)

\* the loop over targetDeps from the k-th on: it ends with the first
\* dependency that closes the cycle
searchDeps(entities, source, targetDeps, k, visited, path) ==
  IF k > Len(targetDeps) THEN {}
  ELSE LET dep == targetDeps[k][2]
       IN IF ~MapHas(entities, dep)
            THEN searchDeps(entities, source, targetDeps, k + 1, visited, path)
          ELSE searchPaths(entities, source, dep, visited, path)
                 \cup (IF createsCycle(entities, source, dep, visited) THEN {}
                       ELSE searchDeps(entities, source, targetDeps, k + 1, visited, path))

RECURSIVE circularFold(_, _, _, _)
circularFold(entities, entityName, refs, circularFields) ==
  IF refs = <<>> THEN circularFields
  ELSE LET field == refs[1][1]
           reference == refs[1][2]
           next == IF /\ MapHas(entities, reference)
                      /\ createsCycle(entities, entityName, reference, {})
                     THEN MapSet(circularFields, field, reference)
                     ELSE circularFields
       IN circularFold(entities, entityName, Tail(refs), next)

findCircularFields(entities, entityName, data) ==
  circularFold(entities, entityName, extractReferences(data), <<>>)

NoEntity == [id |-> ""]

NewEntry(name, fixture) ==
  [name |-> name, fixture |-> fixture, phase |-> "pending",
   entity |-> NoEntity, deferredFields |-> <<>>]

RECURSIVE initEntities(_, _)
\* first loop of createProcessingPlan: every fixture, then its children
initEntities(fixtures, entities) ==
  IF fixtures = <<>> THEN entities
  ELSE LET name == fixtures[1][1]
           fixture == fixtures[1][2]
           withSelf == MapSet(entities, name, NewEntry(name, fixture))
           withKids == MapSetAll(withSelf,
                         [j \in 1..Len(fixture.children) |->
                            <<fixture.children[j][1],
                              NewEntry(fixture.children[j][1], fixture.children[j][2])>>])
       IN initEntities(Tail(fixtures), withKids)

analyzeDependencies(entities) ==
  [j \in 1..Len(entities) |->
     LET entity == entities[j][2] IN
     IF ~Truthy(entity.fixture.data) THEN entities[j]
     ELSE <<entities[j][1],
            [entity EXCEPT !.deferredFields =
               findCircularFields(entities, entity.name, entity.fixture.data)]>>]

createProcessingPlan(fixtures) ==
  LET entities == analyzeDependencies(initEntities(fixtures, <<>>))
  IN [j \in 1..Len(entities) |-> entities[j][2]]

\* fieldPath.split('.'): the keys of the modelled documents hold no '.'
splitPath(fieldPath) == <<fieldPath>>

RECURSIVE removeParts(_, _)
removeParts(obj, parts) ==
  \* arrays pass the typeof check, but `delete` and the lookup by a field
  \* name (never an index) leave them as they are
  IF obj.t # "map" THEN obj
  ELSE IF Len(parts) = 1
    THEN [obj EXCEPT !.kids = MapDelete(obj.kids, parts[1])]
  ELSE IF MapHas(obj.kids, parts[1]) /\ Truthy(MapGet(obj.kids, parts[1]))
    THEN [obj EXCEPT !.kids = MapSet(obj.kids, parts[1],
                                removeParts(MapGet(obj.kids, parts[1]), Tail(parts)))]
  ELSE obj

removeField(obj, fieldPath) == removeParts(obj, splitPath(fieldPath))

RECURSIVE removeAll(_, _)
removeAll(data, fields) ==
  IF fields = <<>> THEN data
  ELSE removeAll(removeField(data, fields[1][1]), Tail(fields))

getInitialData(entity) ==
  IF ~Truthy(entity.fixture.data) THEN Obj(<<>>)
  ELSE removeAll(entity.fixture.data, entity.deferredFields)

RECURSIVE deferredFold(_, _, _)
deferredFold(fields, references, updates) ==
  IF fields = <<>> THEN updates
  ELSE LET field == fields[1][1]
           reference == fields[1][2]
           next == IF MapHas(references, reference)
                     THEN MapSet(updates, field, Str(MapGet(references, reference)))
                     ELSE updates
       IN deferredFold(Tail(fields), references, next)

\* faulty variant: a field whose reference is not registered is sent as null
getDeferredUpdates_unresolved(entity, references) ==
  [j \in 1..Len(entity.deferredFields) |->
     <<entity.deferredFields[j][1],
       IF MapHas(references, entity.deferredFields[j][2])
         THEN Str(MapGet(references, entity.deferredFields[j][2]))
         ELSE Null>>]

\* faulty variant: the payload carries the reference names, not the stored values
getDeferredUpdates_names(entity, references) ==
  [j \in 1..Len(entity.deferredFields) |->
     <<entity.deferredFields[j][1], Str(entity.deferredFields[j][2])>>]

\* the update object, as <<field, value>> pairs
getDeferredUpdates(entity, references) ==
  deferredFold(entity.deferredFields, references, <<>>)

\* -------------------------------------------------------- YamlFixtureLoader

RECURSIVE processFixtureData(_, _)
\* processStringValue resolves "@name" when context.references[name] is
\* truthy; the modelled strings hold no "{...}" placeholder
processStringValue(value, references) ==
  IF /\ value.t = "ref"
     /\ MapHas(references, value.s)
     /\ MapGet(references, value.s) # ""
    THEN Str(MapGet(references, value.s))
    ELSE value

processFixtureData(data, references) ==
  IF data.t \in {"str", "ref"} THEN processStringValue(data, references)
  ELSE IF data.t \in {"seq", "map"}
    THEN [data EXCEPT !.kids =
            [j \in 1..Len(data.kids) |->
               <<data.kids[j][1], processFixtureData(data.kids[j][2], references)>>]]
  ELSE data

\* ------------------------------------------------------ YamlFixtureProcessor

\* A fixture-map key: a plain name, or the range key base_{lo...hi}
PlainKey(n) == [base |-> n, ranged |-> FALSE, lo |-> 0, hi |-> 0]
RangeKey(n, a, b) == [base |-> n, ranged |-> TRUE, lo |-> a, hi |-> b]

RECURSIVE expandRange_desc(_, _, _, _)
\* faulty variant: the range is expanded from its end down to its start
expandRange_desc(expanded, key, fixture, k) ==
  IF k > key.hi THEN expanded
  ELSE expandRange_desc(
         MapSet(expanded, key.base \o "_" \o ToString(key.hi - (k - key.lo)), fixture),
         key, fixture, k + 1)

RECURSIVE expandRange(_, _, _, _)
\* the loop over the range, from k on
expandRange(expanded, key, fixture, k) ==
  IF k > key.hi THEN expanded
  ELSE expandRange(MapSet(expanded, key.base \o "_" \o ToString(k), fixture),
                   key, fixture, k + 1)

RECURSIVE expandFold(_, _)
expandFold(fixtures, expanded) ==
  IF fixtures = <<>> THEN expanded
  ELSE LET key == fixtures[1][1]
           fixture == fixtures[1][2]
       IN expandFold(Tail(fixtures),
            IF key.ranged THEN expandRange(expanded, key, fixture, key.lo)
            ELSE MapSet(expanded, key.base, fixture))

expandMultiInsertionFixtures(fixtures) == expandFold(fixtures, <<>>)

\* snakeToKebab over the entity kinds of the model
snakeToKebab(str) ==
  CASE str = "sales_channel" -> "sales-channel"
    [] OTHER -> str

getEntityEndpoint(entityType) == "./" \o snakeToKebab(entityType)

\* ------------------------------------------------------------------- inputs

NamePool == <<"A", "B", "C", "D", "E">>
Names == {NamePool[j] : j \in 1..MaxFixtures}
NameIndex(n) == CHOOSE j \in 1..Len(NamePool) : NamePool[j] = n

Plain == Obj(<< <<"name", Str("x")>> >>)
Top(r) == Obj(<< <<"name", Str("x")>>, <<"ref", Ref(r)>> >>)
Nested(r) == Obj(<< <<"name", Str("x")>>, <<"sub", Obj(<< <<"ref", Ref(r)>> >>)>> >>)
InSeq(r) == Obj(<< <<"name", Str("x")>>, <<"list", Arr(<<Ref(r)>>)>> >>)
Collide(r1, r2) == Obj(<< <<"ref", Ref(r1)>>, <<"sub", Obj(<< <<"ref", Ref(r2)>> >>)>> >>)

Fixture(e, d, ex, q, ch) ==
  [entity |-> e, data |-> d, existing |-> ex, query |-> q, children |-> ch]

DataMenu ==
  {Null, Plain, Top("sys")}
  \cup {Top(r) : r \in Names} \cup {Nested(r) : r \in Names}
  \cup {InSeq(r) : r \in Names}
  \cup {Collide(p[1], p[2]) : p \in {q \in Names \X Names : NameIndex(q[1]) < NameIndex(q[2])}}

\* the fixtures a file may define under a plain key: new entities over the
\* data menu, `existing` fixtures with and without data and query, and a
\* fixture with a child
FixtureMenu ==
  {Fixture("customer", d, FALSE, Null, <<>>) : d \in DataMenu}
  \cup {Fixture("sales_channel", Null, TRUE, Null, <<>>),
        Fixture("sales_channel", Null, TRUE, Plain, <<>>),
        Fixture("sales_channel", Plain, TRUE, Null, <<>>),
        Fixture("sales_channel", Top("A"), TRUE, Plain, <<>>)}
  \cup {Fixture("customer", Plain, FALSE, Null,
                 << <<"K", Fixture("customer", Top("A"), FALSE, Null, <<>>)>> >>)}

RangedFixture == Fixture("customer", Top("A"), FALSE, Null, <<>>)

\* what a file may define at position j: a menu fixture under the plain key
\* NamePool[j], or RangedFixture under the range key NamePool[j]_{1...RangeEnd}
EntryChoices == (FixtureMenu \X {FALSE}) \cup ({RangedFixture} \X {TRUE})

Entry(j, c) ==
  <<IF c[2] THEN RangeKey(NamePool[j], 1, RangeEnd) ELSE PlainKey(NamePool[j]), c[1]>>

\* the fixture maps loadFixtures may return
FixtureMaps ==
  UNION {{[j \in 1..n |-> Entry(j, g[j])] : g \in [1..n -> EntryChoices]} :
           n \in 1..MaxFixtures}

\* the systemData argument: one key with a value, one key with the empty string
SystemData == << <<"sys", "sysval">>, <<"blank", "">> >>

\* ids the API hands out: created entities id1, id2, ...; remote records r1, r2.
\* Every entity the API returns carries a non-empty id (the EntityHandle
\* contract); a create whose response body cannot be read is not modelled.
NewId(n) == "id" \o ToString(n)
RemoteMatches == {<<>>, <<[id |-> "r1"]>>, <<[id |-> "r1"], [id |-> "r2"]>>}

\* what the API answers to a find: response.ok() and the body's data list
FindAnswers ==
  {[ok |-> FALSE, data |-> <<>>]} \cup {[ok |-> TRUE, data |-> m] : m \in RemoteMatches}

\* -------------------------------------------------------------------- state

VARIABLES
  fixtures,         \* fixtureConfig.fixtures of the file being processed
  references,       \* this.references
  createdEntities,  \* this.createdEntities, the creation ledger
  results,          \* the result map of the run
  processingPlan,   \* the plan of the run (entries carry phase, entity, deferredFields)
  pc,               \* "idle", "phase1", "existingUpdate", "phase2", "done", "failed"
  i,                \* index of the plan entry the current loop is at
  found,            \* the entity findExistingEntity returned, awaiting its update
  nextId,           \* number of entities the API has created
  calls,            \* every call issued to the admin API, in order
  error             \* the error the run was rejected with ("" if none)

VARIABLES
  files,            \* the fixtures directory: file name -> parsed YAML document
  request,          \* the filename argument of the top-level processFixtures call
  stack,            \* the suspended and the running processFixtures calls
  fixturesCache,    \* loader.fixturesCache
  journal,          \* what happened to which file, with the number of calls so far
  entities,         \* the local array of the last cleanup: the ledger entries, reversed
  cleanups          \* number of cleanup calls that have returned

VARIABLES
  heap,             \* the objects of the data trees, by address (object identity)
  expandedFixtures  \* the map expandMultiInsertionFixtures returned

fileVars == <<files, request, stack, fixturesCache, journal, entities, cleanups>>

heapVars == <<heap, expandedFixtures>>

vars == <<fixtures, references, createdEntities, results, processingPlan,
          pc, i, found, nextId, calls, error, fileVars, heapVars>>

Init ==
  /\ fixtures \in FixtureMaps
  /\ references = <<>>
  /\ createdEntities = <<>>
  /\ results = <<>>
  /\ processingPlan = <<>>
  /\ pc = "idle"
  /\ i = 0
  /\ found = NoEntity
  /\ nextId = 0
  /\ calls = <<>>
  /\ error = ""
  /\ files = <<>>
  /\ request = <<>>
  /\ stack = <<>>
  /\ fixturesCache = <<>>
  /\ journal = <<>>
  /\ entities = <<>>
  /\ cleanups = 0
  /\ heap = <<>>
  /\ expandedFixtures = <<>>

\* one API call with its answer: ok is response.ok(), resp the entities of
\* the response body (the created entity, the matches of a find)
Call(op, entityType, id, data, name, phase, ok, resp) ==
  [op |-> op, endpoint |-> getEntityEndpoint(entityType), id |-> id, data |-> data,
   name |-> name, phase |-> phase, ok |-> ok, resp |-> resp]

\* faulty variant: the lookup always uses the data
lookupCriteria_data(fixture) == fixture.data

\* findExistingEntity: the query, or the data when the fixture has no query
lookupCriteria(fixture) ==
  IF Truthy(fixture.query) THEN fixture.query ELSE fixture.data

\* faulty variant: the last match is taken
firstMatch_last(data) == data[Len(data)]

\* findExistingEntity returns result.data[0]
firstMatch(data) == data[1]

\* first entry at or after j that phase 2 updates: still 'created' and with a
\* non-empty getDeferredUpdates; Len(plan) + 1 when there is none
nextDeferred(plan, refs, j) ==
  LET due == {k \in j..Len(plan) :
                /\ plan[k].phase = "created"
                /\ getDeferredUpdates(plan[k], refs) # <<>>}
  IN IF due = {} THEN Len(plan) + 1
     ELSE CHOOSE k \in due : \A m \in due : k <= m

\* faulty variant: an entry is patched as soon as its deferred fields resolve
afterPhase1_eager(plan, refs, j) ==
  IF nextDeferred(plan, refs, 1) <= Len(plan)
    THEN [pc |-> "phase2", i |-> nextDeferred(plan, refs, 1)]
  ELSE IF j < Len(plan) THEN [pc |-> "phase1", i |-> j + 1]
  ELSE [pc |-> "done", i |-> Len(plan) + 1]

\* where the run stands once the phase-1 loop has handled entry j
afterPhase1(plan, refs, j) ==
  IF j < Len(plan) THEN [pc |-> "phase1", i |-> j + 1]
  ELSE IF nextDeferred(plan, refs, 1) <= Len(plan)
    THEN [pc |-> "phase2", i |-> nextDeferred(plan, refs, 1)]
  ELSE [pc |-> "done", i |-> Len(plan) + 1]

\* where the run stands once the phase-2 loop has handled entry j
afterPhase2(plan, refs, j) ==
  IF nextDeferred(plan, refs, j + 1) <= Len(plan)
    THEN [pc |-> "phase2", i |-> nextDeferred(plan, refs, j + 1)]
  ELSE [pc |-> "done", i |-> Len(plan) + 1]

\* faulty variant: the error is swallowed and the loop goes on with the next entry
thrown_swallowed(plan, refs, j, message) ==
  afterPhase1(plan, refs, j) @@ [error |-> ""]

\* a throw inside processFixtures: nothing catches it, the run is rejected
thrown(plan, refs, j, message) == [pc |-> "failed", i |-> j, error |-> message]

\* processFixtures up to its first API call: dependencies (none here), load,
\* seed references with system data, expand range keys, build the plan
StartRun ==
  /\ pc = "idle"
  /\ LET refs == MapSetAll(references, SystemData)
         plan == createProcessingPlan(expandMultiInsertionFixtures(fixtures))
         at == afterPhase1(plan, refs, 0)
     IN /\ references' = refs
        /\ processingPlan' = plan
        /\ pc' = at.pc
        /\ i' = at.i
  /\ UNCHANGED <<heapVars, fixtures, createdEntities, results, found, nextId, calls, error, fileVars>>

\* faulty variant: the entry is marked as already patched when it is materialized
registered_updated(plan, j, entity) ==
  [plan EXCEPT ![j].entity = entity, ![j].phase = "updated"]

\* faulty variant: the deferred fields are dropped when the entry is materialized
registered_recomputed(plan, j, entity) ==
  [plan EXCEPT ![j].entity = entity, ![j].phase = "created", ![j].deferredFields = <<>>]

\* the entry is materialized: entity set, phase 'created'
registered(plan, j, entity) ==
  [plan EXCEPT ![j].entity = entity, ![j].phase = "created"]

\* faulty variant: the created entity is not recorded in the creation ledger
Phase1Create_unrecorded(ok) ==
  /\ pc = "phase1"
  /\ ~processingPlan[i].fixture.existing
  /\ LET pe == processingPlan[i]
         processedData == processFixtureData(getInitialData(pe), references)
         entity == [id |-> NewId(nextId + 1)]
         call == Call("create", pe.fixture.entity, "", processedData, pe.name, 1, ok,
                      IF ok THEN <<entity>> ELSE <<>>)
         plan == IF ok THEN registered(processingPlan, i, entity) ELSE processingPlan
         refs == IF ok THEN MapSet(references, pe.name, entity.id) ELSE references
         at == IF ok THEN afterPhase1(plan, refs, i) @@ [error |-> error]
               ELSE thrown(plan, refs, i, "Failed to create")
     IN /\ calls' = Append(calls, call)
        /\ processingPlan' = plan
        /\ references' = refs
        /\ results' = IF ok THEN MapSet(results, pe.name, entity) ELSE results
        /\ nextId' = IF ok THEN nextId + 1 ELSE nextId
        /\ pc' = at.pc
        /\ i' = at.i
        /\ error' = at.error
  /\ UNCHANGED <<heapVars, fixtures, found, createdEntities, fileVars>>

\* create branch of phase 1 for entry i, with the API's answer
Phase1Create(ok) ==
  /\ pc = "phase1"
  /\ ~processingPlan[i].fixture.existing
  /\ LET pe == processingPlan[i]
         initialData == getInitialData(pe)
         processedData == processFixtureData(initialData, references)
         entity == [id |-> NewId(nextId + 1)]
         call == Call("create", pe.fixture.entity, "", processedData, pe.name, 1, ok,
                      IF ok THEN <<entity>> ELSE <<>>)
         plan == IF ok THEN registered(processingPlan, i, entity) ELSE processingPlan
         refs == IF ok THEN MapSet(references, pe.name, entity.id) ELSE references
         at == IF ok THEN afterPhase1(plan, refs, i) @@ [error |-> error]
               ELSE thrown(plan, refs, i, "Failed to create")
     IN /\ calls' = Append(calls, call)
        /\ processingPlan' = plan
        /\ references' = refs
        /\ results' = IF ok THEN MapSet(results, pe.name, entity) ELSE results
        /\ createdEntities' =
             IF ok THEN MapSet(createdEntities, pe.name, entity.id) ELSE createdEntities
        /\ nextId' = IF ok THEN nextId + 1 ELSE nextId
        /\ pc' = at.pc
        /\ i' = at.i
        /\ error' = at.error
  /\ UNCHANGED <<heapVars, fixtures, found, fileVars>>

\* existing branch, step 1: findExistingEntity for entry i, with the API's answer
Phase1Find(answer) ==
  /\ pc = "phase1"
  /\ processingPlan[i].fixture.existing
  /\ LET pe == processingPlan[i]
         fixture == pe.fixture
         processedQuery == processFixtureData(lookupCriteria(fixture), references)
         call == Call("find", fixture.entity, "", processedQuery, pe.name, 1,
                      answer.ok, answer.data)
         \* Object.entries(undefined) throws before the request is sent
         sent == processedQuery.t # "null"
         matched == sent /\ answer.ok /\ answer.data # <<>>
         \* with data the update comes first; without, the entry is registered
         direct == matched /\ ~Truthy(fixture.data)
         entity == firstMatch(answer.data)
         plan == IF direct THEN registered(processingPlan, i, entity) ELSE processingPlan
         refs == IF direct THEN MapSet(references, pe.name, entity.id) ELSE references
         at == IF ~sent THEN thrown(plan, refs, i, "TypeError")
               ELSE IF ~answer.ok THEN thrown(plan, refs, i, "Failed to find existing")
               ELSE IF answer.data = <<>> THEN thrown(plan, refs, i, "No existing found")
               ELSE IF ~direct THEN [pc |-> "existingUpdate", i |-> i, error |-> error]
               ELSE afterPhase1(plan, refs, i) @@ [error |-> error]
     IN /\ calls' = IF sent THEN Append(calls, call) ELSE calls
        /\ processingPlan' = plan
        /\ references' = refs
        /\ results' = IF direct THEN MapSet(results, pe.name, entity) ELSE results
        /\ createdEntities' =
             IF direct THEN MapSet(createdEntities, pe.name, entity.id)
             ELSE createdEntities
        /\ found' = IF matched /\ ~direct THEN entity ELSE found
        /\ pc' = at.pc
        /\ i' = at.i
        /\ error' = at.error
  /\ UNCHANGED <<heapVars, fixtures, nextId, fileVars>>

\* existing branch, step 2: the update of the found entity with the fixture's data
Phase1ExistingUpdate(ok) ==
  /\ pc = "existingUpdate"
  /\ LET pe == processingPlan[i]
         updateData == processFixtureData(pe.fixture.data, references)
         call == Call("update", pe.fixture.entity, found.id, updateData, pe.name, 1, ok,
                      <<>>)
         plan == IF ok THEN registered(processingPlan, i, found) ELSE processingPlan
         refs == IF ok THEN MapSet(references, pe.name, found.id) ELSE references
         at == IF ok THEN afterPhase1(plan, refs, i) @@ [error |-> error]
               ELSE thrown(plan, refs, i, "Failed to update")
     IN /\ calls' = Append(calls, call)
        /\ processingPlan' = plan
        /\ references' = refs
        /\ results' = IF ok THEN MapSet(results, pe.name, found) ELSE results
        /\ createdEntities' =
             IF ok THEN MapSet(createdEntities, pe.name, found.id) ELSE createdEntities
        /\ found' = IF ok THEN NoEntity ELSE found
        /\ pc' = at.pc
        /\ i' = at.i
        /\ error' = at.error
  /\ UNCHANGED <<heapVars, fixtures, nextId, fileVars>>

\* phase 2 for entry i: the update with its deferred fields
Phase2Update(ok) ==
  /\ pc = "phase2"
  /\ LET pe == processingPlan[i]
         deferredUpdates == getDeferredUpdates(pe, references)
         call == Call("update", pe.fixture.entity, pe.entity.id, Obj(deferredUpdates),
                      pe.name, 2, ok, <<>>)
         plan == IF ok THEN [processingPlan EXCEPT ![i].phase = "updated"]
                 ELSE processingPlan
         at == IF ok THEN afterPhase2(plan, references, i) @@ [error |-> error]
               ELSE thrown(plan, references, i, "Failed to update")
     IN /\ calls' = Append(calls, call)
        /\ processingPlan' = plan
        /\ pc' = at.pc
        /\ i' = at.i
        /\ error' = at.error
  /\ UNCHANGED <<heapVars, fixtures, references, createdEntities, results, found, nextId, fileVars>>

Next ==
  \/ StartRun
  \/ \E ok \in BOOLEAN : Phase1Create(ok)
  \/ \E answer \in FindAnswers : Phase1Find(answer)
  \/ \E ok \in BOOLEAN : Phase1ExistingUpdate(ok)
  \/ \E ok \in BOOLEAN : Phase2Update(ok)

Spec == Init /\ [][Next]_vars

\* ------------------------------------------- files, @depends and @includes

FileNames == {"a.yml", "b.yml", "c.yml", "d.yml"}

\* bound: directive entries ('@depends' and '@includes' items) in the directory
MaxDirectives == 4
\* bound: cleanup calls on one processor
MaxCleanups == 2
\* bound: delete requests the API rejects
MaxDeleteFailures == 1

\* a parsed YAML document with a fixtures section; '@depends' and '@includes'
\* hold the value written in the file: Null when the key is absent, a string,
\* a sequence of strings, or some other value
Document(depends, includes, fx) ==
  [exists |-> TRUE, depends |-> depends, includes |-> includes, fixtures |-> fx]

\* a path with no file behind it (fs.existsSync is false)
NoFile == [exists |-> FALSE, depends |-> Null, includes |-> Null, fixtures |-> <<>>]

\* the sequence node of a list of paths
PathList(list) == Arr([k \in 1..Len(list) |-> Str(list[k])])

\* how a directive listing the given files is written: the key is left out,
\* one path is written as a string, several as a sequence
Directive(list) ==
  IF list = <<>> THEN Null ELSE IF Len(list) = 1 THEN Str(list[1]) ELSE PathList(list)

\* typeof d === 'string', or an array of strings
validDirective(d) ==
  \/ d.t = "str"
  \/ d.t = "seq" /\ \A k \in 1..Len(d.kids) : d.kids[k][2].t = "str"

\* the files a directive names: none when the value is falsy, otherwise
\* `Array.isArray(d) ? d : [d]`
directiveFiles(d) ==
  IF ~Truthy(d) THEN <<>>
  ELSE IF d.t = "seq" THEN [k \in 1..Len(d.kids) |-> d.kids[k][2].s]
  ELSE <<d.s>>

\* the fixtures each file defines: a.yml refers to the entity of d.yml, c.yml
\* looks up an existing entity, d.yml refers to itself (a deferred field)
FileFixtures(f) ==
  CASE f = "a.yml" -> << <<PlainKey("A"), Fixture("customer", Top("D"), FALSE, Null, <<>>)>> >>
    [] f = "b.yml" -> << <<PlainKey("B"), Fixture("customer", Plain, FALSE, Null, <<>>)>> >>
    [] f = "c.yml" -> << <<PlainKey("C"), Fixture("sales_channel", Plain, TRUE, Plain, <<>>)>> >>
    [] OTHER -> << <<PlainKey("D"), Fixture("customer", Top("D"), FALSE, Null, <<>>)>> >>

\* the directive entries a directory may carry, <<file, named file>>, in the
\* order they are listed in the file
DependsMenu ==
  << <<"a.yml", "d.yml">>, <<"a.yml", "b.yml">>, <<"a.yml", "c.yml">>, <<"a.yml", "a.yml">>,
     <<"b.yml", "d.yml">>, <<"b.yml", "a.yml">>, <<"c.yml", "d.yml">> >>

IncludesMenu ==
  << <<"a.yml", "b.yml">>, <<"a.yml", "c.yml">>, <<"a.yml", "a.yml">>,
     <<"b.yml", "d.yml">>, <<"b.yml", "a.yml">>, <<"c.yml", "d.yml">> >>

\* the files file f lists, for the chosen entries of a menu
Listed(menu, chosen, f) ==
  LET at == SelectSeq([j \in 1..Len(menu) |-> j],
                      LAMBDA j : j \in chosen /\ menu[j][1] = f)
  IN [k \in 1..Len(at) |-> menu[at[k]][2]]

\* the fixtures directories: every choice of at most MaxDirectives directive
\* entries; d.yml may be absent when some file names it
Directories ==
  {[f \in FileNames |->
      IF f \in gone THEN NoFile
      ELSE Document(Directive(Listed(DependsMenu, dep, f)),
                    Directive(Listed(IncludesMenu, inc, f)), FileFixtures(f))] :
     <<dep, inc, gone>> \in
       {t \in (SUBSET (1..Len(DependsMenu))) \X (SUBSET (1..Len(IncludesMenu)))
                \X {{}, {"d.yml"}} :
          /\ Cardinality(t[1]) + Cardinality(t[2]) <= MaxDirectives
          /\ t[3] # {} =>
               \/ \E j \in t[1] : DependsMenu[j][2] \in t[3]
               \/ \E j \in t[2] : IncludesMenu[j][2] \in t[3]}}

\* the filename argument of processFixtures: one file, or an array of files
Requests ==
  {[array |-> FALSE, names |-> <<"a.yml">>],
   [array |-> TRUE, names |-> <<"a.yml", "b.yml">>],
   [array |-> TRUE, names |-> <<"a.yml", "a.yml">>]}

\* error messages (up to the file names they mention)
ErrCircularDependency == "Circular dependency detected"
ErrCircularInclude == "Circular include detected"
ErrIncludedNotFound == "Included fixture file not found"
ErrNotFound == "Fixture file not found"
ErrIncludesShape == "@includes directive must be a string or array of strings"
ErrDependsShape == "@depends directive must be a string or array of strings"
ParseFailure(errorMessage) == "Failed to parse YAML fixture file: " \o errorMessage

\* what composing a document yields: the document without '@includes', or the
\* error thrown
Composed(depends, fx) == [error |-> "", depends |-> depends, fixtures |-> fx]
Thrown(errorMessage) == [error |-> errorMessage, depends |-> Null, fixtures |-> <<>>]

\* faulty variant: the data of the current fixture replaces the included data
mergeFixture_replaced(included, current) ==
  [entity |-> current.entity,
   data |-> IF current.data # Null THEN current.data ELSE included.data,
   existing |-> IF current.existing THEN TRUE ELSE included.existing,
   query |-> IF current.query # Null THEN current.query ELSE included.query,
   children |-> IF current.children # <<>> THEN current.children ELSE included.children]

\* { ...included, ...current } with the one-level merge of `data`; a key of
\* the current fixture counts as present when it is not null / false / empty
mergeFixture(included, current) ==
  [entity |-> current.entity,
   data |-> IF Truthy(included.data) /\ Truthy(current.data)
              THEN Obj(MapSetAll(included.data.kids, current.data.kids))
            ELSE IF current.data # Null THEN current.data ELSE included.data,
   existing |-> IF current.existing THEN TRUE ELSE included.existing,
   query |-> IF current.query # Null THEN current.query ELSE included.query,
   children |-> IF current.children # <<>> THEN current.children ELSE included.children]

RECURSIVE mergeFixtures(_, _, _)
\* the included fixtures as base, every current fixture merged over or added
mergeFixtures(includedFixtures, mergedFixtures, currentFixtures) ==
  IF currentFixtures = <<>> THEN mergedFixtures
  ELSE LET fixtureName == currentFixtures[1][1]
           current == currentFixtures[1][2]
       IN mergeFixtures(
            includedFixtures,
            MapSet(mergedFixtures, fixtureName,
                   IF MapHas(includedFixtures, fixtureName)
                     THEN mergeFixture(MapGet(includedFixtures, fixtureName), current)
                     ELSE current),
            Tail(currentFixtures))

RECURSIVE addDependencyFixtures(_, _)
\* dependency fixtures added to the included document, existing ones kept
addDependencyFixtures(includedFixtures, depFixtures) ==
  IF depFixtures = <<>> THEN includedFixtures
  ELSE addDependencyFixtures(
         IF MapHas(includedFixtures, depFixtures[1][1]) THEN includedFixtures
         ELSE Append(includedFixtures, depFixtures[1]),
         Tail(depFixtures))

RECURSIVE pushMissing(_, _)
\* the loop of mergeDependencies: each included path not yet in merged is pushed
pushMissing(merged, includedArray) ==
  IF includedArray = <<>> THEN merged
  ELSE pushMissing(
         IF \E j \in 1..Len(merged) : merged[j] = includedArray[1]
           THEN merged
           ELSE Append(merged, includedArray[1]),
         Tail(includedArray))

\* the current paths followed by the included ones not yet listed; undefined
\* for no path, a string for one, a sequence for several
mergeDependencies(currentDepends, includedDepends) ==
  LET merged == pushMissing(directiveFiles(currentDepends), directiveFiles(includedDepends))
  IN IF Len(merged) = 0 THEN Null
     ELSE IF Len(merged) = 1 THEN Str(merged[1])
     ELSE PathList(merged)

\* the merge of one composed included document into the current merged data;
\* '@depends' is merged when the included document carries the key
mergeIncluded(mergedData, processedIncludedYaml) ==
  Composed(IF processedIncludedYaml.depends # Null
             THEN mergeDependencies(mergedData.depends, processedIncludedYaml.depends)
             ELSE mergedData.depends,
           mergeFixtures(processedIncludedYaml.fixtures, processedIncludedYaml.fixtures,
                         mergedData.fixtures))

RECURSIVE processIncludeDirectives(_, _, _)
RECURSIVE includedDepends(_, _, _, _)
RECURSIVE includeLoop(_, _, _, _)

\* the '@depends' files of an included document, from the k-th on: each is
\* composed and its fixtures are added to the included document; a
\* dependency file that does not exist is passed over
includedDepends(processedIncludedYaml, dependsFiles, k, processedFiles) ==
  IF k > Len(dependsFiles) THEN processedIncludedYaml
  ELSE LET depFile == dependsFiles[k]
           processedDepYaml == processIncludeDirectives(files[depFile], depFile, processedFiles)
       IN IF depFile \in processedFiles THEN Thrown(ErrCircularDependency)
          ELSE IF ~files[depFile].exists
            THEN includedDepends(processedIncludedYaml, dependsFiles, k + 1, processedFiles)
          ELSE IF processedDepYaml.error # "" THEN processedDepYaml
          ELSE includedDepends(
                 [processedIncludedYaml EXCEPT
                    !.fixtures = addDependencyFixtures(@, processedDepYaml.fixtures)],
                 dependsFiles, k + 1, processedFiles)

\* faulty variant: the chain set is shared, so what one include reached is
\* already in the chain when its sibling is composed
includeLoop_shared(mergedData, includeFiles, k, processedFiles) ==
  IF k > Len(includeFiles) THEN mergedData
  ELSE LET includeFile == includeFiles[k]
           processedIncludedYaml ==
             processIncludeDirectives(files[includeFile], includeFile, processedFiles)
           withDepends ==
             includedDepends(processedIncludedYaml,
                             directiveFiles(processedIncludedYaml.depends), 1,
                             processedFiles)
           reached == {includeFile} \cup
                        {directiveFiles(files[includeFile].includes)[j] :
                           j \in 1..Len(directiveFiles(files[includeFile].includes))}
       IN IF includeFile \in processedFiles THEN Thrown(ErrCircularInclude)
          ELSE IF ~files[includeFile].exists THEN Thrown(ErrIncludedNotFound)
          ELSE IF processedIncludedYaml.error # "" THEN processedIncludedYaml
          ELSE IF withDepends.error # "" THEN withDepends
          ELSE includeLoop(mergeIncluded(mergedData, withDepends), includeFiles, k + 1,
                           processedFiles \cup reached)

\* the '@includes' files of a document, from the k-th on, merged one after
\* the other into mergedData; each is composed with its own copy of the chain
includeLoop(mergedData, includeFiles, k, processedFiles) ==
  IF k > Len(includeFiles) THEN mergedData
  ELSE LET includeFile == includeFiles[k]
           processedIncludedYaml ==
             processIncludeDirectives(files[includeFile], includeFile, processedFiles)
           withDepends ==
             includedDepends(processedIncludedYaml,
                             directiveFiles(processedIncludedYaml.depends), 1,
                             processedFiles)
       IN IF includeFile \in processedFiles THEN Thrown(ErrCircularInclude)
          ELSE IF ~files[includeFile].exists THEN Thrown(ErrIncludedNotFound)
          ELSE IF processedIncludedYaml.error # "" THEN processedIncludedYaml
          ELSE IF withDepends.error # "" THEN withDepends
          ELSE includeLoop(mergeIncluded(mergedData, withDepends), includeFiles, k + 1,
                           processedFiles)

\* the document with its '@includes' resolved; the current file joins the chain
processIncludeDirectives(yamlData, currentFilename, processedFiles) ==
  IF ~Truthy(yamlData.includes) THEN Composed(yamlData.depends, yamlData.fixtures)
  ELSE IF ~validDirective(yamlData.includes) THEN Thrown(ErrIncludesShape)
  ELSE includeLoop(Composed(yamlData.depends, yamlData.fixtures),
                   directiveFiles(yamlData.includes), 1,
                   processedFiles \cup {currentFilename})

\* faulty variant: the file is read and composed on every call
loadFixtures_uncached(filename) ==
  IF ~files[filename].exists THEN Thrown(ErrNotFound)
  ELSE LET processedYaml == processIncludeDirectives(files[filename], filename, {})
       IN IF processedYaml.error # "" THEN Thrown(ParseFailure(processedYaml.error))
          ELSE processedYaml

\* loadFixtures: the cached configuration, or the composed document, or the
\* error it is rejected with
loadFixtures(filename) ==
  IF MapHas(fixturesCache, filename) THEN MapGet(fixturesCache, filename)
  ELSE IF ~files[filename].exists THEN Thrown(ErrNotFound)
  ELSE LET processedYaml == processIncludeDirectives(files[filename], filename, {})
       IN IF processedYaml.error # "" THEN Thrown(ParseFailure(processedYaml.error))
          ELSE processedYaml

InitFiles ==
  /\ files \in Directories
  /\ request \in Requests
  /\ fixtures = <<>>
  /\ references = <<>>
  /\ createdEntities = <<>>
  /\ results = <<>>
  /\ processingPlan = <<>>
  /\ pc = "idle"
  /\ i = 0
  /\ found = NoEntity
  /\ nextId = 0
  /\ calls = <<>>
  /\ error = ""
  /\ stack = <<>>
  /\ fixturesCache = <<>>
  /\ journal = <<>>
  /\ entities = <<>>
  /\ cleanups = 0
  /\ heap = <<>>
  /\ expandedFixtures = <<>>

\* a processFixtures call: of an array (its loop over `list`), or of one file
\* (the loop of its processDependencies over the file's '@depends'); k files
\* of the list are done, merged holds their results
Frame(kind, file, list, processedDependencies) ==
  [kind |-> kind, file |-> file, list |-> list, k |-> 0, merged |-> <<>>,
   processedDependencies |-> processedDependencies]

\* a journal entry: the file is entered, has loaded its fixtures, or returns
\* (with the names of its result map); depth is the nesting of its call
Event(event, file, depth) ==
  [event |-> event, file |-> file, at |-> Len(calls), depth |-> depth,
   names |-> IF event = "return" THEN MapKeys(results) ELSE {}]

\* faulty variant: the file does not join the set of files being processed
enterFile_unmarked(stk, filename, processedDependencies) ==
  [error |-> IF filename \in processedDependencies THEN ErrCircularDependency
              ELSE IF Truthy(files[filename].depends)
                        /\ ~validDirective(files[filename].depends) THEN ErrDependsShape
              ELSE "",
   stack |-> Append(stk, Frame("file", filename, directiveFiles(files[filename].depends),
                               processedDependencies))]

\* faulty variant: the dependencies of the file are not looked at
enterFile_nodeps(stk, filename, processedDependencies) ==
  [error |-> IF filename \in processedDependencies THEN ErrCircularDependency
              ELSE IF Truthy(files[filename].depends)
                        /\ ~validDirective(files[filename].depends) THEN ErrDependsShape
              ELSE "",
   stack |-> Append(stk, Frame("file", filename, <<>>,
                               processedDependencies \cup {filename}))]

\* processFixtures(filename, ..., processedDependencies) for one file, up to
\* the loop of processDependencies: the file must not be in the set, joins
\* it, and its raw '@depends' is read (none when the file does not exist)
enterFile(stk, filename, processedDependencies) ==
  [error |-> IF filename \in processedDependencies THEN ErrCircularDependency
              ELSE IF Truthy(files[filename].depends)
                        /\ ~validDirective(files[filename].depends) THEN ErrDependsShape
              ELSE "",
   stack |-> Append(stk, Frame("file", filename, directiveFiles(files[filename].depends),
                               processedDependencies \cup {filename}))]

\* the top-level call processFixtures(request, adminApiContext, systemData)
ProcessFixtures ==
  /\ pc = "idle"
  /\ stack' = IF request.array THEN <<Frame("array", "", request.names, {})>>
              ELSE enterFile(<<>>, request.names[1], {}).stack
  /\ journal' = IF request.array THEN journal
                ELSE Append(journal, Event("enter", request.names[1], 1))
  /\ pc' = "next"
  /\ UNCHANGED <<heapVars, fixtures, references, createdEntities, results, processingPlan, i,
                 found, nextId, calls, error, files, request, fixturesCache, entities,
                 cleanups>>

\* the array loop: processFixtures for the next file, with the array's own set
NextFile ==
  /\ pc = "next"
  /\ stack[Len(stack)].kind = "array"
  /\ stack[Len(stack)].k < Len(stack[Len(stack)].list)
  /\ LET frame == stack[Len(stack)]
         file == frame.list[frame.k + 1]
         shared == [stack EXCEPT ![Len(stack)].processedDependencies = @ \cup {file}]
         entered == enterFile(shared, file, frame.processedDependencies)
     IN IF entered.error # ""
          THEN /\ pc' = "failed"
               /\ error' = entered.error
               /\ UNCHANGED <<stack, journal>>
          ELSE /\ stack' = entered.stack
               /\ journal' = Append(journal, Event("enter", file, Len(stack) + 1))
               /\ UNCHANGED <<pc, error>>
  /\ UNCHANGED <<heapVars, fixtures, references, createdEntities, results, processingPlan, i,
                 found, nextId, calls, files, request, fixturesCache, entities, cleanups>>

\* the loop of processDependencies: the next '@depends' file must not be in
\* the set and is processed with a copy of it
NextDependency ==
  /\ pc = "next"
  /\ stack[Len(stack)].kind = "file"
  /\ stack[Len(stack)].k < Len(stack[Len(stack)].list)
  /\ LET frame == stack[Len(stack)]
         depFile == frame.list[frame.k + 1]
         entered == enterFile(stack, depFile, frame.processedDependencies)
     IN IF entered.error # ""
          THEN /\ pc' = "failed"
               /\ error' = entered.error
               /\ UNCHANGED <<stack, journal>>
          ELSE /\ stack' = entered.stack
               /\ journal' = Append(journal, Event("enter", depFile, Len(stack) + 1))
               /\ UNCHANGED <<pc, error>>
  /\ UNCHANGED <<heapVars, fixtures, references, createdEntities, results, processingPlan, i,
                 found, nextId, calls, files, request, fixturesCache, entities, cleanups>>

\* processFixtures of one file once its dependencies have returned: load,
\* seed references with system data, expand range keys, start the results
\* with the dependency results, build the plan
LoadAndPlan ==
  /\ pc = "next"
  /\ stack[Len(stack)].kind = "file"
  /\ stack[Len(stack)].k = Len(stack[Len(stack)].list)
  /\ LET frame == stack[Len(stack)]
         fixtureConfig == loadFixtures(frame.file)
         refs == MapSetAll(references, SystemData)
         plan == createProcessingPlan(expandMultiInsertionFixtures(fixtureConfig.fixtures))
         at == afterPhase1(plan, refs, 0)
     IN IF fixtureConfig.error # ""
          THEN /\ pc' = "failed"
               /\ error' = fixtureConfig.error
               /\ UNCHANGED <<fixtures, references, results, processingPlan, i,
                              fixturesCache, journal>>
          ELSE /\ fixturesCache' = MapSet(fixturesCache, frame.file, fixtureConfig)
               /\ fixtures' = fixtureConfig.fixtures
               /\ references' = refs
               /\ results' = frame.merged
               /\ processingPlan' = plan
               /\ pc' = at.pc
               /\ i' = at.i
               /\ journal' = Append(journal, Event("load", frame.file, Len(stack)))
               /\ UNCHANGED error
  /\ UNCHANGED <<heapVars, createdEntities, found, nextId, calls, files, request, stack, entities,
                 cleanups>>

\* processFixtures of one file returns its results: to the caller's loop,
\* which merges them, or to the caller of the top-level call
ReturnFile ==
  /\ pc = "done"
  /\ stack # <<>>
  /\ LET frame == stack[Len(stack)]
         callers == SubSeq(stack, 1, Len(stack) - 1)
     IN /\ journal' = Append(journal, Event("return", frame.file, Len(stack)))
        /\ IF callers = <<>>
             THEN /\ stack' = <<>>
                  /\ pc' = "returned"
             ELSE /\ stack' = [callers EXCEPT
                                 ![Len(callers)].k = @ + 1,
                                 ![Len(callers)].merged = MapSetAll(@, results)]
                  /\ pc' = "next"
  /\ UNCHANGED <<heapVars, fixtures, references, createdEntities, results, processingPlan, i,
                 found, nextId, calls, error, files, request, fixturesCache, entities,
                 cleanups>>

\* the array loop is through: the merged results are returned
ReturnArray ==
  /\ pc = "next"
  /\ stack[Len(stack)].kind = "array"
  /\ stack[Len(stack)].k = Len(stack[Len(stack)].list)
  /\ results' = stack[Len(stack)].merged
  /\ stack' = <<>>
  /\ pc' = "returned"
  /\ UNCHANGED <<heapVars, fixtures, references, createdEntities, processingPlan, i, found,
                 nextId, calls, error, files, request, fixturesCache, journal, entities,
                 cleanups>>

\* ------------------------------------------------------------------ cleanup

\* faulty variant: the ledger is walked in recording order
reversedEntries_forward(ledger) == ledger

\* Array.from(createdEntities.entries()).reverse()
reversedEntries(ledger) == [j \in 1..Len(ledger) |-> ledger[Len(ledger) + 1 - j]]

getCleanupEndpoint(entityName) == getEntityEndpoint(entityName)

\* faulty variant: a rejected delete ends the loop
afterDelete_abort(list, j, ok) == IF ok THEN j + 1 ELSE Len(list) + 1

\* the loop goes on with the next entry whether the delete was rejected or not
afterDelete(list, j, ok) == j + 1

\* the delete requests cleanup issues
DeleteCall(name, entityId, ok) ==
  [Call("delete", name, entityId, Null, name, 0, ok, <<>>)
     EXCEPT !.endpoint = getCleanupEndpoint(name)]

RECURSIVE cleanupCalls(_, _, _)
\* cleanup's loop from entry j of the list on: the delete requests it issues;
\* `rejected` holds the entries whose request the API rejects
cleanupCalls(list, j, rejected) ==
  IF j > Len(list) THEN <<>>
  ELSE LET name == list[j][1]
           entityId == list[j][2]
           issued == getCleanupEndpoint(name) # "" /\ entityId # ""
       IN (IF issued THEN <<DeleteCall(name, entityId, j \notin rejected)>> ELSE <<>>)
            \o cleanupCalls(list, afterDelete(list, j, j \notin rejected), rejected)

\* cleanup(adminApiContext), called on a processor that is not inside
\* processFixtures: one delete per ledger entry, then ledger and references
\* are cleared and the call returns
Cleanup(rejected) ==
  /\ pc \in {"returned", "failed", "cleaned"}
  /\ cleanups < MaxCleanups
  /\ rejected \subseteq 1..Len(createdEntities)
  /\ Cardinality(rejected) <= MaxDeleteFailures
  /\ entities' = reversedEntries(createdEntities)
  /\ calls' = calls \o cleanupCalls(reversedEntries(createdEntities), 1, rejected)
  /\ createdEntities' = <<>>
  /\ references' = <<>>
  /\ cleanups' = cleanups + 1
  /\ pc' = "cleaned"
  /\ UNCHANGED <<heapVars, fixtures, results, processingPlan, i, found, nextId, error, files,
                 request, stack, fixturesCache, journal>>

NextFiles ==
  \/ ProcessFixtures
  \/ NextFile
  \/ NextDependency
  \/ LoadAndPlan
  \/ \E ok \in BOOLEAN : Phase1Create(ok)
  \/ \E answer \in FindAnswers : Phase1Find(answer)
  \/ \E ok \in BOOLEAN : Phase1ExistingUpdate(ok)
  \/ \E ok \in BOOLEAN : Phase2Update(ok)
  \/ ReturnFile
  \/ ReturnArray
  \/ \E rejected \in SUBSET (1..Len(createdEntities)) : Cleanup(rejected)

SpecFiles == InitFiles /\ [][NextFiles]_vars

\* ------------------------------------------------- the loader on its own

\* the `data` maps of a fixture F that a base file and the file including it
\* both define: flat maps sharing key b, and maps holding a nested mapping
\* under the same key n
BaseFlat == Obj(<< <<"a", Str("1")>>, <<"b", Str("2")>> >>)
CurrentFlat == Obj(<< <<"b", Str("3")>>, <<"c", Str("4")>> >>)
BaseNested ==
  Obj(<< <<"a", Str("1")>>, <<"n", Obj(<< <<"x", Str("1")>>, <<"y", Str("2")>> >>)>> >>)
CurrentNested ==
  Obj(<< <<"n", Obj(<< <<"y", Str("3")>>, <<"z", Str("4")>> >>)>>, <<"c", Str("4")>> >>)

\* <<F of the base file, F of the current file>>: the base F may be an
\* `existing` fixture with a query, either side may come without data
OverridePairs ==
  {<<Fixture("customer", BaseFlat, FALSE, Null, <<>>),
     Fixture("product", CurrentFlat, FALSE, Null, <<>>)>>,
   <<Fixture("customer", BaseNested, TRUE, Plain, <<>>),
     Fixture("product", CurrentNested, FALSE, Null, <<>>)>>,
   <<Fixture("customer", BaseFlat, TRUE, Plain, <<>>),
     Fixture("product", Null, FALSE, Null, <<>>)>>,
   <<Fixture("customer", Null, FALSE, Null, <<>>),
     Fixture("product", CurrentFlat, FALSE, Null, <<>>)>>}

\* a.yml is the current file (F and G), b.yml the base file (H and F); c.yml
\* defines H too, as another kind of entity; d.yml is as in FileFixtures
LoaderFixtures(f, pair) ==
  CASE f = "a.yml" -> << <<PlainKey("F"), pair[2]>>,
                         <<PlainKey("G"), Fixture("customer", Plain, FALSE, Null, <<>>)>> >>
    [] f = "b.yml" -> << <<PlainKey("H"), Fixture("customer", Plain, FALSE, Null, <<>>)>>,
                         <<PlainKey("F"), pair[1]>> >>
    [] f = "c.yml" -> FileFixtures(f)
                        \o << <<PlainKey("H"), Fixture("product", Null, FALSE, Null, <<>>)>> >>
    [] OTHER -> FileFixtures(f)

\* the '@depends' values a file may carry: absent, a string, a list, a list
\* naming one file twice
LoaderDepends(f) ==
  CASE f = "a.yml" -> {Null, Str("c.yml"), PathList(<<"c.yml", "c.yml">>),
                       PathList(<<"d.yml", "c.yml">>)}
    [] f = "b.yml" -> {Null, Str("c.yml"), PathList(<<"c.yml", "d.yml">>),
                       PathList(<<"d.yml", "d.yml">>)}
    [] f = "c.yml" -> {Null, Str("d.yml")}
    [] OTHER -> {Null}

\* the '@includes' values a file may carry: absent, a string, a list, and a
\* mapping (neither a string nor an array)
LoaderIncludes(f) ==
  CASE f = "a.yml" -> {Null, Str("b.yml"), PathList(<<"b.yml", "c.yml">>), Obj(<<>>)}
    [] f = "b.yml" -> {Null, Str("c.yml")}
    [] OTHER -> {Null}

\* the directories the loader is run on; d.yml may be missing
LoaderDirectories ==
  {[f \in FileNames |->
      IF f \in t[7] THEN NoFile
      ELSE Document(CASE f = "a.yml" -> t[1] [] f = "b.yml" -> t[2]
                      [] f = "c.yml" -> t[3] [] OTHER -> Null,
                    CASE f = "a.yml" -> t[4] [] f = "b.yml" -> t[5] [] OTHER -> Null,
                    LoaderFixtures(f, t[6]))] :
     t \in LoaderDepends("a.yml") \X LoaderDepends("b.yml") \X LoaderDepends("c.yml")
            \X LoaderIncludes("a.yml") \X LoaderIncludes("b.yml")
            \X OverridePairs \X {{}, {"d.yml"}}}

\* the files loadFixtures is called with, and the file that is written anew
LoadNames == {"a.yml", "b.yml", "d.yml"}
Rewritten ==
  Document(Null, Null,
           << <<PlainKey("F"), Fixture("customer", Plain, FALSE, Null, <<>>)>> >>)

\* no loadFixtures call yet
NoRequest == [array |-> FALSE, names |-> <<>>]

InitLoader ==
  /\ files \in LoaderDirectories
  /\ request = NoRequest
  /\ fixtures = <<>>
  /\ references = <<>>
  /\ createdEntities = <<>>
  /\ results = <<>>
  /\ processingPlan = <<>>
  /\ pc = "idle"
  /\ i = 0
  /\ found = NoEntity
  /\ nextId = 0
  /\ calls = <<>>
  /\ error = ""
  /\ stack = <<>>
  /\ fixturesCache = <<>>
  /\ journal = <<>>
  /\ entities = <<>>
  /\ cleanups = 0
  /\ heap = <<>>
  /\ expandedFixtures = <<>>

\* loader.loadFixtures(filename): the configuration is returned and cached,
\* or the call is rejected and nothing is stored
LoadFixtures(filename) ==
  /\ LET config == loadFixtures(filename)
     IN /\ request' = [array |-> FALSE, names |-> <<filename>>]
        /\ error' = config.error
        /\ fixtures' = config.fixtures
        /\ fixturesCache' = IF config.error # "" \/ MapHas(fixturesCache, filename)
                              THEN fixturesCache
                              ELSE MapSet(fixturesCache, filename, config)
  /\ UNCHANGED <<heapVars, references, createdEntities, results, processingPlan, pc, i, found,
                 nextId, calls, files, stack, journal, entities, cleanups>>

\* the file is written anew between two loads (fs.writeFileSync)
WriteFile(filename) ==
  /\ files[filename] # Rewritten
  /\ files' = [files EXCEPT ![filename] = Rewritten]
  /\ UNCHANGED <<heapVars, fixtures, references, createdEntities, results, processingPlan, pc, i,
                 found, nextId, calls, error, request, stack, fixturesCache, journal,
                 entities, cleanups>>

NextLoader ==
  \/ \E filename \in LoadNames : LoadFixtures(filename)
  \/ WriteFile("a.yml")

SpecLoader == InitLoader /\ [][NextLoader]_vars

\* ------------------------------------------- range expansion, with identity

\* bound: objects changed after the expansion
MaxMutations == 1

\* A data tree whose mappings and sequences are objects of the heap: a field
\* holds a scalar or the address of an object.
Ptr(a) == [t |-> "ptr", s |-> ToString(a), kids |-> <<>>]
Address(h, v) == CHOOSE a \in 1..Len(h) : ToString(a) = v.s

RECURSIVE parse(_, _)
RECURSIVE parseKids(_, _, _)
\* JSON.parse: a new object for every mapping and sequence of the text
parse(h, node) ==
  IF node.t \in {"map", "seq"}
    THEN LET inner == parseKids(h, node.kids, <<>>)
         IN [heap |-> Append(inner.heap, [t |-> node.t, s |-> "", kids |-> inner.kids]),
             value |-> Ptr(Len(inner.heap) + 1)]
    ELSE [heap |-> h, value |-> node]

parseKids(h, kids, done) ==
  IF kids = <<>> THEN [heap |-> h, kids |-> done]
  ELSE LET first == parse(h, kids[1][2])
       IN parseKids(first.heap, Tail(kids), Append(done, <<kids[1][1], first.value>>))

RECURSIVE stringify(_, _)
\* JSON.stringify: the text of a value, addresses followed
stringify(h, v) ==
  IF v.t = "ptr"
    THEN LET o == h[Address(h, v)]
         IN [t |-> o.t, s |-> o.s,
             kids |-> [j \in 1..Len(o.kids) |-> <<o.kids[j][1], stringify(h, o.kids[j][2])>>]]
    ELSE v

\* faulty variant: the copies share the data object of the template
cloneData_shared(h, data) ==
  [heap |-> h, value |-> IF data.t = "ptr" \/ Truthy(data) THEN data ELSE Null]

\* fixture.data ? JSON.parse(JSON.stringify(fixture.data)) : undefined
cloneData(h, data) ==
  IF data.t = "ptr" \/ Truthy(data) THEN parse(h, stringify(h, data))
  ELSE [heap |-> h, value |-> Null]

RECURSIVE expandRangeInHeap(_, _, _, _)
\* the loop over the range, from k on: { ...fixture, data: the clone }
expandRangeInHeap(st, key, fixture, k) ==
  IF k > key.hi THEN st
  ELSE LET copy == cloneData(st.heap, fixture.data)
       IN expandRangeInHeap(
            [heap |-> copy.heap,
             expanded |-> MapSet(st.expanded, key.base \o "_" \o ToString(k),
                                 [fixture EXCEPT !.data = copy.value])],
            key, fixture, k + 1)

RECURSIVE expandFoldInHeap(_, _)
\* the loop over Object.entries(fixtures); a key that is no range keeps its
\* fixture object
expandFoldInHeap(fx, st) ==
  IF fx = <<>> THEN st
  ELSE LET key == fx[1][1]
           fixture == fx[1][2]
       IN expandFoldInHeap(Tail(fx),
            IF key.ranged THEN expandRangeInHeap(st, key, fixture, key.lo)
            ELSE [st EXCEPT !.expanded = MapSet(@, key.base, fixture)])

\* the first entry: A, plain or under any range of 1..RangeEnd (also one with
\* start > end), with or without data; the optional second entry: B
TemplateData == {Null, Plain, Nested("A"), InSeq("A")}
FirstEntries ==
  {<<k, Fixture("customer", d, FALSE, Null, <<>>)>> :
     k \in {PlainKey("A")} \cup {RangeKey("A", lo, hi) : lo, hi \in 1..RangeEnd},
     d \in TemplateData}
SecondEntries ==
  {<<k, Fixture("customer", d, FALSE, Null, <<>>)>> :
     k \in {PlainKey("B"), RangeKey("B", 1, RangeEnd)}, d \in {Plain, Nested("A")}}
ExpandInputs ==
  {<<e>> : e \in FirstEntries} \cup {<<e, f>> : e \in FirstEntries, f \in SecondEntries}

RECURSIVE loadInHeap(_, _)
\* the fixtures as yaml.load built them: every data tree made of new objects
loadInHeap(fx, st) ==
  IF fx = <<>> THEN st
  ELSE LET data == parse(st.heap, fx[1][2].data)
       IN loadInHeap(Tail(fx),
            [heap |-> data.heap,
             fixtures |-> Append(st.fixtures,
                                 <<fx[1][1], [fx[1][2] EXCEPT !.data = data.value]>>)])

InitExpand ==
  /\ \E fx \in ExpandInputs :
       LET st == loadInHeap(fx, [heap |-> <<>>, fixtures |-> <<>>])
       IN fixtures = st.fixtures /\ heap = st.heap
  /\ expandedFixtures = <<>>
  /\ references = <<>>
  /\ createdEntities = <<>>
  /\ results = <<>>
  /\ processingPlan = <<>>
  /\ pc = "idle"
  /\ i = 0
  /\ found = NoEntity
  /\ nextId = 0
  /\ calls = <<>>
  /\ error = ""
  /\ files = <<>>
  /\ request = <<>>
  /\ stack = <<>>
  /\ fixturesCache = <<>>
  /\ journal = <<>>
  /\ entities = <<>>
  /\ cleanups = 0

\* expandMultiInsertionFixtures(fixtureConfig.fixtures)
Expand ==
  /\ pc = "idle"
  /\ LET st == expandFoldInHeap(fixtures, [heap |-> heap, expanded |-> <<>>])
     IN heap' = st.heap /\ expandedFixtures' = st.expanded
  /\ pc' = "expanded"
  /\ UNCHANGED <<fixtures, references, createdEntities, results, processingPlan, i, found,
                 nextId, calls, error, fileVars>>

RECURSIVE Objects(_, _)
\* the addresses of the objects of a data tree
Objects(h, v) ==
  IF v.t # "ptr" THEN {}
  ELSE {Address(h, v)}
         \cup UNION {Objects(h, h[Address(h, v)].kids[j][2]) :
                       j \in 1..Len(h[Address(h, v)].kids)}

Changed(o) == MapHas(o.kids, "changed")

\* a field of one object of the data of a fixture (an expanded one, or one of
\* the loaded map) is set
Mutate(fx, name, a) ==
  /\ pc = "expanded"
  /\ MapHas(fx, name)
  /\ a \in Objects(heap, MapGet(fx, name).data)
  /\ ~Changed(heap[a])
  /\ Cardinality({b \in 1..Len(heap) : Changed(heap[b])}) < MaxMutations
  /\ heap' = [heap EXCEPT ![a].kids = Append(@, <<"changed", Str("yes")>>)]
  /\ UNCHANGED <<fixtures, references, createdEntities, results, processingPlan, pc, i,
                 found, nextId, calls, error, fileVars, expandedFixtures>>

NextExpand ==
  \/ Expand
  \/ \E name \in MapKeys(expandedFixtures), a \in 1..Len(heap) :
       Mutate(expandedFixtures, name, a)
  \/ \E key \in MapKeys(fixtures), a \in 1..Len(heap) : Mutate(fixtures, key, a)

SpecExpand == InitExpand /\ [][NextExpand]_vars

\* ------------------------------------- phase 2 over any plan and references

\* the deferred fields an entry may carry: none, fields referring to entries
\* of the plan, and fields referring to a name that is nowhere registered
DeferredMenu ==
  {<<>>,
   << <<"ref", "A">> >>,
   << <<"ref", "B">> >>,
   << <<"ref", "A">>, <<"other", "B">> >>,
   << <<"ref", "ghost">> >>,
   << <<"ref", "ghost">>, <<"other", "B">> >>}

\* entry j of a plan as phase 1 leaves it: created, with its entity
CreatedEntry(j, deferredFields) ==
  [name |-> NamePool[j], fixture |-> Fixture("customer", Plain, FALSE, Null, <<>>),
   phase |-> "created", entity |-> [id |-> NewId(j)], deferredFields |-> deferredFields]

CreatedPlans ==
  UNION {{[j \in 1..n |-> CreatedEntry(j, d[j])] : d \in [1..n -> DeferredMenu]} :
           n \in 1..MaxFixtures}

\* the reference maps: any of the names registered with the id of its entity
ReferenceMaps ==
  {SelectSeq([j \in 1..MaxFixtures |-> <<NamePool[j], NewId(j)>>],
             LAMBDA p : p[1] \in registeredNames) : registeredNames \in SUBSET Names}

\* the processor between its two loops, over any plan and reference map
InitUpdates ==
  /\ processingPlan \in CreatedPlans
  /\ references \in ReferenceMaps
  /\ pc = "between"
  /\ i = 0
  /\ fixtures = <<>>
  /\ createdEntities = <<>>
  /\ results = <<>>
  /\ found = NoEntity
  /\ nextId = 0
  /\ calls = <<>>
  /\ error = ""
  /\ files = <<>>
  /\ request = <<>>
  /\ stack = <<>>
  /\ fixturesCache = <<>>
  /\ journal = <<>>
  /\ entities = <<>>
  /\ cleanups = 0
  /\ heap = <<>>
  /\ expandedFixtures = <<>>

\* the phase-2 loop is entered: it goes to the first entry with an update
\* to send, or ends
EnterPhase2 ==
  /\ pc = "between"
  /\ pc' = afterPhase1(processingPlan, references, Len(processingPlan)).pc
  /\ i' = afterPhase1(processingPlan, references, Len(processingPlan)).i
  /\ UNCHANGED <<fixtures, references, createdEntities, results, processingPlan, found,
                 nextId, calls, error, fileVars, heapVars>>

NextUpdates ==
  \/ EnterPhase2
  \/ \E ok \in BOOLEAN : Phase2Update(ok)

SpecUpdates == InitUpdates /\ [][NextUpdates]_vars

\* -------------------------------------------- references at any depth

\* data holding the value v at the top level, in a nested mapping, or as an
\* element of a sequence
Holding(shape, v) ==
  CASE shape = "top" -> Obj(<< <<"name", Str("x")>>, <<"ref", v>> >>)
    [] shape = "nested" -> Obj(<< <<"name", Str("x")>>, <<"sub", Obj(<< <<"ref", v>> >>)>> >>)
    [] OTHER -> Obj(<< <<"name", Str("x")>>, <<"list", Arr(<<v>>)>> >>)

Shapes == {"top", "nested", "seq"}

\* the names a reference may carry: the system-data keys, and a name that is
\* registered nowhere
ReferredNames == {"sys", "blank", "ghost"}

\* data carrying the entity-level directive '@include': K next to a field of
\* its own
Including(K) == Obj(<< <<"@include", Str(K)>>, <<"name", Str("y")>> >>)

\* fixture A refers to one of the names at one of the depths; fixture B, when
\* there is one, refers to one of the names or to A, or includes the data of A
\* or of a fixture that is not there
ReferringMaps ==
  LET a == {<<PlainKey("A"), Fixture("customer", Holding(shape, Ref(r)), FALSE, Null, <<>>)>> :
              shape \in Shapes, r \in ReferredNames}
      b == {<<PlainKey("B"), Fixture("customer", d, FALSE, Null, <<>>)>> :
              d \in {Plain, Including("A"), Including("ghost")}
                     \cup {Holding("top", Ref(r)) : r \in ReferredNames \cup {"A"}}}
  IN {<<x>> : x \in a} \cup {<<x, y>> : x \in a, y \in b}

InitData ==
  /\ fixtures \in ReferringMaps
  /\ references = <<>>
  /\ createdEntities = <<>>
  /\ results = <<>>
  /\ processingPlan = <<>>
  /\ pc = "idle"
  /\ i = 0
  /\ found = NoEntity
  /\ nextId = 0
  /\ calls = <<>>
  /\ error = ""
  /\ files = <<>>
  /\ request = <<>>
  /\ stack = <<>>
  /\ fixturesCache = <<>>
  /\ journal = <<>>
  /\ entities = <<>>
  /\ cleanups = 0
  /\ heap = <<>>
  /\ expandedFixtures = <<>>

NextData ==
  \/ StartRun
  \/ \E ok \in BOOLEAN : Phase1Create(ok)

SpecData == InitData /\ [][NextData]_vars

\* ------------------------------------ chains of directives over three files

\* the directive entries of a directory whose files name each other in a
\* round: a.yml -> b.yml -> c.yml -> a.yml, each step a '@depends' or an
\* '@includes' entry, and b.yml and c.yml depending on each other
ChainDependsMenu ==
  << <<"a.yml", "b.yml">>, <<"b.yml", "c.yml">>, <<"c.yml", "a.yml">>, <<"c.yml", "b.yml">> >>

ChainIncludesMenu ==
  << <<"a.yml", "b.yml">>, <<"b.yml", "c.yml">>, <<"c.yml", "a.yml">> >>

\* the directories: every choice of at most MaxDirectives entries; all four
\* files exist
ChainDirectories ==
  {[f \in FileNames |->
      Document(Directive(Listed(ChainDependsMenu, t[1], f)),
               Directive(Listed(ChainIncludesMenu, t[2], f)), FileFixtures(f))] :
     t \in {u \in (SUBSET (1..Len(ChainDependsMenu))) \X (SUBSET (1..Len(ChainIncludesMenu))) :
              Cardinality(u[1]) + Cardinality(u[2]) <= MaxDirectives}}

\* the request names a file of the round, or two of them
ChainRequests ==
  {[array |-> FALSE, names |-> <<"a.yml">>],
   [array |-> FALSE, names |-> <<"b.yml">>],
   [array |-> TRUE, names |-> <<"d.yml", "a.yml">>]}

InitChains ==
  /\ files \in ChainDirectories
  /\ request \in ChainRequests
  /\ fixtures = <<>>
  /\ references = <<>>
  /\ createdEntities = <<>>
  /\ results = <<>>
  /\ processingPlan = <<>>
  /\ pc = "idle"
  /\ i = 0
  /\ found = NoEntity
  /\ nextId = 0
  /\ calls = <<>>
  /\ error = ""
  /\ stack = <<>>
  /\ fixturesCache = <<>>
  /\ journal = <<>>
  /\ entities = <<>>
  /\ cleanups = 0
  /\ heap = <<>>
  /\ expandedFixtures = <<>>

SpecChains == InitChains /\ [][NextFiles]_vars

\* ---------------------------------------- plans over any reference graph

\* the fixtures of the reference graphs
GraphNames == <<"A", "B", "C">>

\* data referring to the fixtures of the set S, each under a key of its own
Referring(S) ==
  Obj(<< <<"name", Str("x")>> >>
        \o SelectSeq([j \in 1..Len(GraphNames) |-> <<"to" \o GraphNames[j], Ref(GraphNames[j])>>],
                     LAMBDA pair : pair[2].s \in S))

\* every reference graph over the three fixtures, self-references included
GraphMaps ==
  {[j \in 1..Len(GraphNames) |->
      <<PlainKey(GraphNames[j]), Fixture("customer", Referring(g[j]), FALSE, Null, <<>>)>>] :
     g \in [1..Len(GraphNames) -> SUBSET {GraphNames[j] : j \in 1..Len(GraphNames)}]}

InitPlans ==
  /\ fixtures \in GraphMaps
  /\ references = <<>>
  /\ createdEntities = <<>>
  /\ results = <<>>
  /\ processingPlan = <<>>
  /\ pc = "idle"
  /\ i = 0
  /\ found = NoEntity
  /\ nextId = 0
  /\ calls = <<>>
  /\ error = ""
  /\ files = <<>>
  /\ request = <<>>
  /\ stack = <<>>
  /\ fixturesCache = <<>>
  /\ journal = <<>>
  /\ entities = <<>>
  /\ cleanups = 0
  /\ heap = <<>>
  /\ expandedFixtures = <<>>

NextPlans ==
  \/ StartRun
  \/ \E ok \in BOOLEAN : Phase1Create(ok)
  \/ \E ok \in BOOLEAN : Phase2Update(ok)

SpecPlans == InitPlans /\ [][NextPlans]_vars

\* ------------------------------------------------------------------- claims

PlanIndex == 1..Len(processingPlan)
CallIndex == 1..Len(calls)
PlanNames == {processingPlan[j].name : j \in PlanIndex}
NoExisting == \A j \in PlanIndex : ~processingPlan[j].fixture.existing

\* the calls of one operation issued for one plan entry in one phase
CallsFor(op, name, phase) ==
  {k \in CallIndex : calls[k].op = op /\ calls[k].name = name /\ calls[k].phase = phase}

\* direct-reference edges between plan entries, and reachability over them
Edge(a, b) ==
  \E j \in PlanIndex :
    /\ processingPlan[j].name = a
    /\ b \in PlanNames
    /\ b \in Tokens(processingPlan[j].fixture.data)

RECURSIVE ReachSet(_)
\* the least superset of `from` closed under Edge
ReachSet(from) ==
  LET more == from \cup {b \in PlanNames : \E a \in from : Edge(a, b)}
  IN IF more = from THEN from ELSE ReachSet(more)

\* b is reachable from a through zero or more direct-reference edges
Reach(a, b) == b \in ReachSet({a})

\* C1: in a run over one file that completed without error and has no
\* `existing` fixture, every plan entry got exactly one create call, every
\* entry with a non-empty deferredFields got exactly one phase-2 update, the
\* entries with an empty deferredFields got no update at all, and every value
\* of a phase-2 update payload is a value stored in referenceMap.
C1_TwoPhaseProtocol ==
  /\ (pc = "done" /\ NoExisting) =>
       \A j \in PlanIndex :
         LET e == processingPlan[j] IN
         /\ Cardinality(CallsFor("create", e.name, 1)) = 1
         /\ Cardinality(CallsFor("update", e.name, 2)) =
              (IF e.deferredFields # <<>> THEN 1 ELSE 0)
         /\ CallsFor("update", e.name, 1) = {}
  /\ \A k \in CallIndex :
       calls[k].phase = 2 =>
         \A m \in 1..Len(calls[k].data.kids) :
           LET value == calls[k].data.kids[m][2] IN
           /\ value.t = "str"
           /\ \E n \in 1..Len(references) : references[n][2] = value.s

C1_Witness ==
  /\ pc = "done"
  /\ NoExisting
  /\ Len(processingPlan) >= 2
  /\ \E j \in PlanIndex : processingPlan[j].deferredFields # <<>>
  /\ \E j \in PlanIndex : processingPlan[j].deferredFields = <<>>
  /\ \E k \in CallIndex : calls[k].phase = 2 /\ calls[k].data.kids # <<>>

\* the names an entry's deferredFields refer to
DeferredRefs(e) == {e.deferredFields[k][2] : k \in 1..Len(e.deferredFields)}

\* the plan as the resolver's entities map
PlanEntities == [j \in PlanIndex |-> <<processingPlan[j].name, processingPlan[j]>>]

\* the cycle test alone agrees with reachability: createsCycle(a, b) holds
\* exactly when a is reachable from b
CycleTestIsReachability ==
  \A a, b \in PlanNames :
    createsCycle(PlanEntities, a, b, {}) <=> Reach(b, a)

\* C2: createProcessingPlan marks a reference from fixture `name` to fixture
\* `r` (both in the map) as deferred if and only if `name` is reachable from
\* `r` through direct-reference edges (name = r counts as reachable).
C2_DeferredIffReachable ==
  \A j \in PlanIndex :
    LET e == processingPlan[j] IN
    \A r \in PlanNames \cap Tokens(e.fixture.data) :
      (r \in DeferredRefs(e)) <=> Reach(r, e.name)

\* one step of an entry's phase: unchanged, pending -> created, created -> updated
PhaseStep(a, b) ==
  \/ a = b
  \/ a = "pending" /\ b = "created"
  \/ a = "created" /\ b = "updated"

\* C3: each plan entry's phase only moves pending -> created -> updated: it
\* starts pending, never regresses, reaches `updated` only from `created`, and
\* when the run completes every entry without deferred fields is `created`
\* and every entry with a deferred field is `updated`.
C3_PhaseMachine ==
  /\ [][/\ processingPlan = <<>> =>
             \A j \in DOMAIN processingPlan' : processingPlan'[j].phase = "pending"
        /\ processingPlan # <<>> =>
             /\ DOMAIN processingPlan' = DOMAIN processingPlan
             /\ \A j \in DOMAIN processingPlan :
                  PhaseStep(processingPlan[j].phase, processingPlan'[j].phase)]_vars
  /\ [](pc = "done" =>
          \A j \in PlanIndex :
            processingPlan[j].phase =
              (IF processingPlan[j].deferredFields = <<>> THEN "created" ELSE "updated"))

C3_Witness ==
  /\ pc = "done"
  /\ \E j \in PlanIndex : processingPlan[j].phase = "updated"
  /\ \E j \in PlanIndex : processingPlan[j].phase = "created"

\* the plan entry of a name
EntryOf(name) == processingPlan[CHOOSE j \in PlanIndex : processingPlan[j].name = name]

\* C4: for every fixture that is created, the data passed to create holds no
\* reference token of any of the fixture's deferred references, wherever the
\* token sits: the deferred field is absent from the create payload.
C4_CreateOmitsDeferred ==
  \A k \in CallIndex :
    calls[k].op = "create" =>
      \A r \in DeferredRefs(EntryOf(calls[k].name)) :
        /\ ~HasToken(getInitialData(EntryOf(calls[k].name)), r)
        /\ ~HasToken(calls[k].data, r)

\* C5: phase 1 has no ordering hazard: no create payload carries the literal
\* "@name" of a fixture of the same plan.
C5_NoOrderingHazard ==
  \A k \in CallIndex :
    calls[k].op = "create" => Tokens(calls[k].data) \cap PlanNames = {}

RECURSIVE ExpectedNames(_)
\* the names of a fixture map after range expansion, in iteration order
ExpectedNames(fx) ==
  IF fx = <<>> THEN <<>>
  ELSE LET key == fx[1][1] IN
       (IF key.ranged
          THEN [k \in 1..((key.hi + 1) - key.lo) |->
                  key.base \o "_" \o ToString(key.lo + k - 1)]
          ELSE <<key.base>>)
       \o ExpectedNames(Tail(fx))

\* the names of the create calls issued so far, in call order
CreateNames ==
  LET creates == SelectSeq(calls, LAMBDA c : c.op = "create")
  IN [k \in 1..Len(creates) |-> creates[k].name]

SeqRange(q) == {q[k] : k \in 1..Len(q)}

Acyclic == \A a, b \in PlanNames : Edge(a, b) => ~Reach(b, a)

\* C6: for a fixture map without reference cycle and without `existing`
\* fixture, a completed run issued no update call, and its create calls for
\* the fixtures of the map were issued in the map's iteration order after
\* range expansion.
C6_AcyclicRunOrder ==
  (pc = "done" /\ NoExisting /\ Acyclic) =>
    /\ \A k \in CallIndex : calls[k].op # "update"
    /\ SelectSeq(CreateNames, LAMBDA n : n \in SeqRange(ExpectedNames(fixtures)))
         = ExpectedNames(fixtures)

C6_Witness ==
  /\ pc = "done"
  /\ NoExisting
  /\ Acyclic
  /\ \E a, b \in PlanNames : Edge(a, b)
  /\ \E j \in 1..Len(fixtures) : fixtures[j][1].ranged
  /\ Len(CreateNames) >= 3

\* C7: no phase-2 update is issued before every plan entry is `created` with
\* its name in referenceMap, and no phase-1 call follows a phase-2 update.
C7_Phase2AfterPhase1 ==
  \A k \in CallIndex :
    calls[k].phase = 2 =>
      /\ \A j \in PlanIndex :
           /\ processingPlan[j].phase # "pending"
           /\ MapHas(references, processingPlan[j].name)
      /\ \A m \in CallIndex : m > k => calls[m].phase = 2

C7_Witness ==
  /\ Len(processingPlan) >= 2
  /\ \E k \in CallIndex : calls[k].phase = 2
  /\ \E k \in CallIndex : calls[k].op = "find"
  /\ \E k \in CallIndex : calls[k].op = "create"

\* a call that failed: the response was not ok, or a find matched nothing
Failed(c) == ~c.ok \/ (c.op = "find" /\ c.resp = <<>>)

\* the run was rejected in phase 1
FailedInPhase1 == pc = "failed" /\ \A k \in CallIndex : calls[k].phase = 1

\* C8: a create, find or update that fails in phase 1 for plan entry i aborts
\* the run with the error: the failed call is the last call issued (no call
\* for a later entry, no phase-2 update, no second attempt, no delete), and
\* the entities of the entries before i stay in the creation ledger.
C8_Phase1FailureAborts ==
  /\ \A k \in CallIndex :
       (calls[k].phase = 1 /\ Failed(calls[k])) =>
         /\ pc = "failed"
         /\ error # ""
         /\ k = Len(calls)
         /\ calls[k].name = processingPlan[i].name
  /\ FailedInPhase1 =>
       /\ \A k \in CallIndex :
            /\ calls[k].op # "delete"
            /\ \E j \in 1..i : processingPlan[j].name = calls[k].name
       /\ \A k, m \in CallIndex :
            (k # m /\ calls[k].name = calls[m].name) => calls[k].op # calls[m].op
       /\ \A j \in PlanIndex :
            IF j < i
              THEN /\ processingPlan[j].phase = "created"
                   /\ MapHas(createdEntities, processingPlan[j].name)
                   /\ MapGet(createdEntities, processingPlan[j].name)
                        = processingPlan[j].entity.id
              ELSE /\ processingPlan[j].phase = "pending"
                   /\ ~MapHas(createdEntities, processingPlan[j].name)

C8_Witness ==
  /\ FailedInPhase1
  /\ i = 2
  /\ Len(processingPlan) >= 3
  /\ createdEntities # <<>>
  /\ ~calls[Len(calls)].ok

C11_RegisteredIffCreated ==
  /\ pc # "idle" =>
       \A j \in 1..Len(SystemData) :
         /\ MapHas(references, SystemData[j][1])
         /\ MapGet(references, SystemData[j][1]) = SystemData[j][2]
  /\ \A j \in PlanIndex :
       LET pe == processingPlan[j]
       IN IF pe.phase = "pending"
            THEN /\ pe.entity = NoEntity
                 /\ ~MapHas(references, pe.name)
                 /\ ~MapHas(createdEntities, pe.name)
                 /\ ~MapHas(results, pe.name)
            ELSE /\ pe.entity # NoEntity
                 /\ MapHas(references, pe.name)
                 /\ MapGet(references, pe.name) = pe.entity.id
                 /\ MapHas(createdEntities, pe.name)
                 /\ MapGet(createdEntities, pe.name) = pe.entity.id
                 /\ MapHas(results, pe.name)
                 /\ MapGet(results, pe.name) = pe.entity

\* a run in phase 1 with one entry materialized by create, one by the
\* existing branch, and one still pending
C11_Witness ==
  /\ pc = "phase1"
  /\ \E j \in PlanIndex : processingPlan[j].phase = "pending"
  /\ \E j, k \in PlanIndex :
       /\ processingPlan[j].phase = "created" /\ processingPlan[j].fixture.existing
       /\ processingPlan[k].phase = "created" /\ ~processingPlan[k].fixture.existing

\* the calls a step appends to the call log
NewCalls == SubSeq(calls', Len(calls) + 1, Len(calls'))

\* a step in which a cleanup call runs
CleanupStep == cleanups' = cleanups + 1

C13_CleanupBestEffort ==
  [][CleanupStep =>
       /\ pc' = "cleaned"
       /\ error' = error
       /\ createdEntities' = <<>>
       /\ references' = <<>>
       /\ \A j \in 1..Len(createdEntities) :
            \E k \in 1..Len(NewCalls) :
              /\ NewCalls[k].op = "delete"
              /\ NewCalls[k].name = createdEntities[j][1]
              /\ NewCalls[k].id = createdEntities[j][2]
       /\ pc = "cleaned" => calls' = calls]_vars

\* a second cleanup has returned, and in the first one a rejected delete was
\* followed by the delete of another entry
C13_Witness ==
  /\ pc = "cleaned"
  /\ cleanups = 2
  /\ \E k \in CallIndex :
       /\ k < Len(calls)
       /\ calls[k].op = "delete" /\ ~calls[k].ok
       /\ calls[k + 1].op = "delete" /\ calls[k + 1].name # calls[k].name

\* C14: every delete call goes to the endpoint of the entity kind of the
\* fixture that materialized the entity, with the entity's id: an earlier
\* successful create or find for the same fixture name returned that id and
\* went to the same endpoint.
C14_DeleteTargetsEntityKind ==
  \A d \in CallIndex :
    calls[d].op = "delete" =>
      \E k \in 1..(d - 1) :
        /\ calls[k].op \in {"create", "find"}
        /\ calls[k].ok
        /\ calls[k].name = calls[d].name
        /\ \E r \in 1..Len(calls[k].resp) : calls[k].resp[r].id = calls[d].id
        /\ calls[k].endpoint = calls[d].endpoint

\* directive edges of the directory, <<file, file it names>>, for the files
\* that exist
IncludeEdges ==
  UNION {{<<f, directiveFiles(files[f].includes)[j]>> :
            j \in 1..Len(directiveFiles(files[f].includes))} :
           f \in {g \in FileNames : files[g].exists}}

DependsEdges ==
  UNION {{<<f, directiveFiles(files[f].depends)[j]>> :
            j \in 1..Len(directiveFiles(files[f].depends))} :
           f \in {g \in FileNames : files[g].exists}}

RECURSIVE Grow(_, _)
\* the files reachable from the set S over the edges E, S included
Grow(E, S) ==
  LET T == S \cup {e[2] : e \in {x \in E : x[1] \in S}}
  IN IF T = S THEN S ELSE Grow(E, T)

\* the files reachable from f in one step or more
ReachedFrom(E, f) == Grow(E, {e[2] : e \in {x \in E : x[1] = f}})

OnCycle(E, f) == f \in ReachedFrom(E, f)

\* following the edges from f leads back to a file already on the way
CycleReachable(E, f) == \E g \in {f} \cup ReachedFrom(E, f) : OnCycle(E, g)

AllFilesExist == \A f \in FileNames : files[f].exists

CircularErrors == {ParseFailure(ErrCircularInclude), ParseFailure(ErrCircularDependency)}

\* C15: loadFixtures of a file from which following '@includes' leads back
\* to a file of the inclusion chain (a self-include too) fails, with the
\* circular-include error when nothing else is wrong in the directory; and
\* it raises no circular error when no directive chain from the file leads
\* back into itself, however many branches name the same file (A includes B
\* and C, both include D). In a run: a file that was loaded has no such
\* cycle, and a load rejected as circular include has one.
C15_CircularIncludePerBranch ==
  /\ pc = "idle" =>
       \A f \in FileNames :
         files[f].exists =>
           /\ CycleReachable(IncludeEdges, f) =>
                /\ loadFixtures(f).error # ""
                /\ AllFilesExist => loadFixtures(f).error \in CircularErrors
                /\ AllFilesExist /\ DependsEdges = {} =>
                     loadFixtures(f).error = ParseFailure(ErrCircularInclude)
           /\ ~CycleReachable(IncludeEdges \cup DependsEdges, f) =>
                /\ loadFixtures(f).error \notin CircularErrors
                /\ AllFilesExist => loadFixtures(f).error = ""
  /\ \A j \in 1..Len(journal) :
       journal[j].event = "load" => ~CycleReachable(IncludeEdges, journal[j].file)
  /\ pc = "failed" /\ error = ParseFailure(ErrCircularInclude) =>
       CycleReachable(IncludeEdges \cup DependsEdges, stack[Len(stack)].file)

\* a.yml includes b.yml and c.yml, both include d.yml, and a.yml has been
\* loaded and has created the entity of d.yml
C15_Witness ==
  /\ directiveFiles(files["a.yml"].includes) = <<"b.yml", "c.yml">>
  /\ directiveFiles(files["b.yml"].includes) = <<"d.yml">>
  /\ directiveFiles(files["c.yml"].includes) = <<"d.yml">>
  /\ \E j \in 1..Len(journal) : journal[j].event = "load" /\ journal[j].file = "a.yml"
  /\ \E k \in CallIndex : calls[k].op = "create" /\ calls[k].name = "D" /\ calls[k].ok

\* the files whose processFixtures calls are in progress
Chain == {stack[j].file : j \in {k \in 1..Len(stack) : stack[k].kind = "file"}}

\* the processFixtures call that issued call k: the file loaded last before it
Owner(k) ==
  LET loads == {j \in 1..Len(journal) : journal[j].event = "load" /\ journal[j].at < k}
  IN journal[CHOOSE j \in loads : \A m \in loads : m <= j].file

RunCalls == {k \in CallIndex : calls[k].op # "delete"}

\* the loop of processDependencies is about to take a file of the chain
ReEncounter ==
  /\ pc = "next"
  /\ stack # <<>>
  /\ stack[Len(stack)].kind = "file"
  /\ stack[Len(stack)].k < Len(stack[Len(stack)].list)
  /\ stack[Len(stack)].list[stack[Len(stack)].k + 1] \in Chain

C17_CircularOnlyIfCycle ==
  pc = "failed" /\ error = ErrCircularDependency =>
    \E f \in FileNames : OnCycle(DependsEdges, f)

JournalIndex == 1..Len(journal)

\* the journal entry at which the call that produced entry l was entered
EnteredAt(l) ==
  LET before == {e \in 1..(l - 1) :
                   /\ journal[e].event = "enter"
                   /\ journal[e].file = journal[l].file
                   /\ journal[e].depth = journal[l].depth}
  IN CHOOSE e \in before : \A m \in before : m <= e

\* the calls entered and returned one level below `depth` between journal
\* entries e and l
Below(e, l, depth) ==
  SelectSeq(SubSeq(journal, e + 1, l - 1),
            LAMBDA ev : ev.depth = depth + 1 /\ ev.event \in {"enter", "return"})

\* C18: when a file F has loaded its fixtures (the calls for F's plan come
\* after that), the files of its '@depends' list, and only they, have been
\* entered and have returned since F was entered, one after the other in
\* listed order: for each its own dependencies, its phase-1 calls and its
\* phase-2 updates are behind; and when F returns, its result map holds
\* every name its dependencies returned.
C18_DependenciesFirst ==
  \A l \in JournalIndex :
    /\ journal[l].event = "load" =>
         LET list == directiveFiles(files[journal[l].file].depends)
             below == Below(EnteredAt(l), l, journal[l].depth)
         IN /\ Len(below) = 2 * Len(list)
            /\ \A p \in 1..Len(list) :
                 /\ below[2 * p - 1].event = "enter"
                 /\ below[2 * p - 1].file = list[p]
                 /\ below[2 * p].event = "return"
                 /\ below[2 * p].file = list[p]
                 /\ below[2 * p].at <= journal[l].at
    /\ journal[l].event = "return" =>
         LET below == Below(EnteredAt(l), l, journal[l].depth)
         IN \A p \in 1..Len(below) :
              below[p].event = "return" => below[p].names \subseteq journal[l].names

\* a.yml depends on d.yml and b.yml: d.yml was created and patched, b.yml
\* created, then a.yml created with the reference to the entity of d.yml
\* resolved, and the call returned with all three in the result map
C18_Witness ==
  /\ pc = "returned"
  /\ ~request.array
  /\ directiveFiles(files["a.yml"].depends) = <<"d.yml", "b.yml">>
  /\ Len(calls) = 4
  /\ calls[1].op = "create" /\ calls[1].name = "D"
  /\ calls[2].op = "update" /\ calls[2].name = "D" /\ calls[2].phase = 2
  /\ calls[3].op = "create" /\ calls[3].name = "B"
  /\ calls[4].op = "create" /\ calls[4].name = "A"
  /\ ~HasToken(calls[4].data, "D")
  /\ MapKeys(results) = {"A", "B", "D"}

\* the names of the fixtures a file defines
FixtureNames(f) == {files[f].fixtures[j][1].base : j \in 1..Len(files[f].fixtures)}

\* the files named by the '@depends' of the documents file f includes
IncludedPrerequisites(f) ==
  {e[2] : e \in {x \in DependsEdges : <<f, x[1]>> \in IncludeEdges}}

\* the entity of fixture `name` was materialized by one of the first n calls
MaterializedBy(name, n) ==
  \E k \in 1..n :
    /\ calls[k].op \in {"create", "find"}
    /\ calls[k].ok
    /\ calls[k].name = name
    /\ calls[k].resp # <<>>

\* C19: when a file M includes a document B whose '@depends' names a file P,
\* every fixture of P is materialized before M has loaded its fixtures, that
\* is before any fixture of M's composed set, B's included, is created.
C19_IncludedDependsArePrerequisites ==
  \A l \in JournalIndex :
    journal[l].event = "load" =>
      \A P \in IncludedPrerequisites(journal[l].file) :
        files[P].exists =>
          \A name \in FixtureNames(P) : MaterializedBy(name, journal[l].at)

\* C20: in one top-level processFixtures call no fixture name is the subject
\* of two create calls, however often its file is reached through
\* '@depends', '@includes' and the array of files.
C20_OneCreatePerName ==
  \A k1, k2 \in CallIndex :
    /\ calls[k1].op = "create"
    /\ calls[k2].op = "create"
    /\ calls[k1].name = calls[k2].name
    => k1 = k2

\* ---- composition of one base file (C21, C22)

\* this step is a loadFixtures(f) that composed the file and cached the result
ComposedNow(f) == ~MapHas(fixturesCache, f) /\ MapHas(fixturesCache', f)

\* a.yml includes exactly the base file b.yml
OneBase == directiveFiles(files["a.yml"].includes) = <<"b.yml">>

DataKeys(fixture) == MapKeys(fixture.data.kids)

\* fixtures only the base or only the current document defines are unchanged
KeepsUnshared(merged, base, current) ==
  /\ \A n \in MapKeys(base) \ MapKeys(current) : MapGet(merged, n) = MapGet(base, n)
  /\ \A n \in MapKeys(current) \ MapKeys(base) : MapGet(merged, n) = MapGet(current, n)

\* the data of F is the union of both data maps, the current value winning
UnionOfData(F, B, C) ==
  /\ DataKeys(F) = DataKeys(B) \cup DataKeys(C)
  /\ \A k \in DataKeys(C) : MapGet(F.data.kids, k) = MapGet(C.data.kids, k)
  /\ \A k \in DataKeys(B) \ DataKeys(C) : MapGet(F.data.kids, k) = MapGet(B.data.kids, k)

\* the fields of F other than data are those of the current fixture
FieldsOfCurrent(F, C) ==
  /\ F.entity = C.entity
  /\ F.existing = C.existing
  /\ F.query = C.query
  /\ F.children = C.children

\* the fields of F other than data: the current fixture's where it defines
\* the field, the base fixture's otherwise
FieldsLayered(F, B, C) ==
  /\ F.entity = C.entity
  /\ F.existing = (C.existing \/ B.existing)
  /\ F.query = IF C.query # Null THEN C.query ELSE B.query
  /\ F.children = IF C.children # <<>> THEN C.children ELSE B.children

\* C21 as stated: composing a.yml over the one base file b.yml keeps the
\* unshared fixtures, gives the shared F the union of both data maps, and gives F
\* the other fields of the current document
C21_OverrideMergeAsStated ==
  [][ComposedNow("a.yml") /\ OneBase =>
       LET merged == MapGet(fixturesCache', "a.yml").fixtures
           base == files["b.yml"].fixtures
           current == files["a.yml"].fixtures
       IN /\ KeepsUnshared(merged, base, current)
          /\ \A n \in MapKeys(base) \cap MapKeys(current) :
               /\ UnionOfData(MapGet(merged, n), MapGet(base, n), MapGet(current, n))
               /\ FieldsOfCurrent(MapGet(merged, n), MapGet(current, n))]_vars

\* C21: composing a.yml over the one base file b.yml keeps the fixtures only
\* one of them defines, gives a fixture F both define the union of the two data
\* maps (the current value for keys of both, the base value for keys of the base
\* only), and takes each other field of F from the current document when it
\* defines the field and from the base otherwise
C21_OverrideMerge ==
  [][ComposedNow("a.yml") /\ OneBase =>
       LET merged == MapGet(fixturesCache', "a.yml").fixtures
           base == files["b.yml"].fixtures
           current == files["a.yml"].fixtures
       IN /\ KeepsUnshared(merged, base, current)
          /\ \A n \in MapKeys(base) \cap MapKeys(current) :
               /\ UnionOfData(MapGet(merged, n), MapGet(base, n), MapGet(current, n))
               /\ FieldsLayered(MapGet(merged, n), MapGet(base, n), MapGet(current, n))]_vars

\* a.yml was composed over b.yml: {a:1,b:2} under {b:3,c:4} gave {a:1,b:3,c:4},
\* G and H are there as written
C21_Witness ==
  /\ request.names = <<"a.yml">>
  /\ error = ""
  /\ OneBase
  /\ files["a.yml"] # Rewritten
  /\ MapGet(files["b.yml"].fixtures, PlainKey("F")).data = BaseFlat
  /\ MapGet(fixtures, PlainKey("F")).data
       = Obj(<< <<"a", Str("1")>>, <<"b", Str("3")>>, <<"c", Str("4")>> >>)
  /\ MapHas(fixtures, PlainKey("G"))
  /\ MapHas(fixtures, PlainKey("H"))

\* the keys under which both data maps hold a mapping
NestedInBoth(B, C) ==
  {k \in DataKeys(B) \cap DataKeys(C) :
     MapGet(B.data.kids, k).t = "map" /\ MapGet(C.data.kids, k).t = "map"}

\* C22: composing a.yml over the base file b.yml, a nested mapping that the
\* data of F holds under the same key in both files keeps the base's nested keys
\* the current file does not define and takes the current file's value for the
\* nested keys of both
C22_DataMergeIsDeep ==
  [][ComposedNow("a.yml") /\ OneBase =>
       LET merged == MapGet(fixturesCache', "a.yml").fixtures
           base == files["b.yml"].fixtures
           current == files["a.yml"].fixtures
       IN \A n \in MapKeys(base) \cap MapKeys(current) :
            \A k \in NestedInBoth(MapGet(base, n), MapGet(current, n)) :
              LET inner == MapGet(MapGet(merged, n).data.kids, k).kids
                  ofBase == MapGet(MapGet(base, n).data.kids, k).kids
                  ofCurrent == MapGet(MapGet(current, n).data.kids, k).kids
              IN /\ MapKeys(inner) = MapKeys(ofBase) \cup MapKeys(ofCurrent)
                 /\ \A x \in MapKeys(ofCurrent) : MapGet(inner, x) = MapGet(ofCurrent, x)
                 /\ \A x \in MapKeys(ofBase) \ MapKeys(ofCurrent) :
                      MapGet(inner, x) = MapGet(ofBase, x)]_vars

\* ---- the depends list of a composed document (C23)

RECURSIVE Concat(_)
\* the sequences of a sequence, one after the other
Concat(lists) == IF lists = <<>> THEN <<>> ELSE lists[1] \o Concat(Tail(lists))

RECURSIVE Gathered(_)
\* the depends entries of file f followed by those of the documents it
\* includes, in the order the includes are listed
Gathered(f) ==
  LET includeFiles == directiveFiles(files[f].includes)
  IN directiveFiles(files[f].depends)
       \o Concat([k \in 1..Len(includeFiles) |-> Gathered(includeFiles[k])])

RECURSIVE FirstOccurrences(_)
\* the list without the repetitions of a path
FirstOccurrences(list) ==
  IF list = <<>> THEN <<>>
  ELSE LET front == FirstOccurrences(SubSeq(list, 1, Len(list) - 1))
           last == list[Len(list)]
       IN IF \E j \in 1..Len(front) : front[j] = last THEN front ELSE Append(front, last)

\* C23: the depends list of the composed a.yml holds every depends entry of
\* a.yml and of the documents it includes, own entries first and the included
\* ones in encounter order, and no path more than once
C23_DependsIsDuplicateFreeUnion ==
  [][ComposedNow("a.yml") =>
       directiveFiles(MapGet(fixturesCache', "a.yml").depends)
         = FirstOccurrences(Gathered("a.yml"))]_vars

\* ---- composition errors (C24, C25)

\* the errors of composing the files: a missing file, a directive of the
\* wrong shape, a circular include, a circular dependency
CompositionErrors ==
  {ErrNotFound, ErrCircularDependency, ErrDependsShape}
  \cup {ParseFailure(e) : e \in {ErrIncludedNotFound, ErrCircularInclude,
                                   ErrCircularDependency, ErrIncludesShape}}

\* C24: when processFixtures is rejected with a composition error, no call
\* was issued to the API during that processFixtures call
C24_CompositionErrorBeforeAnyCall ==
  pc = "failed" /\ error \in CompositionErrors => calls = <<>>

\* the files named by the request, and the files f includes, directly or
\* through included files
Requested == {request.names[k] : k \in 1..Len(request.names)}
IncludedBy(f) == ReachedFrom(IncludeEdges, f)

\* every requested file, every file one of them includes, and every file
\* named in the '@depends' of a requested file exists
NamedByTopLevelExist ==
  \A f \in Requested :
    /\ files[f].exists
    /\ \A g \in IncludedBy(f) : files[g].exists
    /\ \A e \in DependsEdges : e[1] = f => files[e[2]].exists

\* every file named in the '@depends' of a document a requested file includes
\* exists
NamedByIncludedExist ==
  \A f \in Requested : \A g \in IncludedBy(f) :
    \A e \in DependsEdges : e[1] = g => files[e[2]].exists

\* C25: a processFixtures call returns only if every file named exists: the
\* top-level files, the files they include, the files their '@depends' name, and
\* the files named in the '@depends' of the documents they include
C25_MissingFileFails ==
  pc = "returned" => NamedByTopLevelExist /\ NamedByIncludedExist

\* ---- range expansion (C26)

\* the names an input key expands to
NamesOf(key) ==
  IF key.ranged THEN {key.base \o "_" \o ToString(k) : k \in key.lo..key.hi}
  ELSE {key.base}

RECURSIVE SumOfNames(_)
SumOfNames(fx) ==
  IF fx = <<>> THEN 0 ELSE Cardinality(NamesOf(fx[1][1])) + SumOfNames(Tail(fx))

\* the data trees held by the loaded and by the expanded fixtures, by holder
Holders ==
  {<<"loaded", key>> : key \in MapKeys(fixtures)}
    \cup {<<"expanded", name>> : name \in MapKeys(expandedFixtures)}
DataOf(x) ==
  IF x[1] = "loaded" THEN MapGet(fixtures, x[2]).data
  ELSE MapGet(expandedFixtures, x[2]).data

\* the expanded copies of the ranged keys
Copies ==
  {<<"expanded", name>> : name \in UNION {NamesOf(key) :
                                            key \in {q \in MapKeys(fixtures) : q.ranged}}}

\* the expanded map holds, for every key, exactly the names of the key: a
\* plain key with its own fixture, a range with copies that equal the template
ExpandedAsKeyed ==
  /\ MapKeys(expandedFixtures) = UNION {NamesOf(key) : key \in MapKeys(fixtures)}
  /\ Len(expandedFixtures) = SumOfNames(fixtures)
  /\ \A key \in MapKeys(fixtures) :
       LET template == MapGet(fixtures, key)
       IN \A name \in NamesOf(key) :
            LET copy == MapGet(expandedFixtures, name)
            IN IF key.ranged
                 THEN /\ stringify(heap, copy.data) = stringify(heap, template.data)
                      /\ [copy EXCEPT !.data = Null] = [template EXCEPT !.data = Null]
                 ELSE copy = template

ResolvedFields(pe) ==
  LET present == SelectSeq(pe.deferredFields, LAMBDA p : MapHas(references, p[2]))
  IN [j \in 1..Len(present) |-> <<present[j][1], Str(MapGet(references, present[j][2]))>>]

UpdateCalls(name) == {k \in CallIndex : calls[k].op = "update" /\ calls[k].name = name}

\* C27: the update sent for an entry carries exactly its deferred fields whose
\* referenced name is registered, each with the registered value; a field whose
\* name is not registered is left out and is no error; an entry with no such
\* field gets no update call and stays `created`
C27_DeferredUpdates ==
  /\ \A k \in CallIndex : calls[k].op = "update" /\ calls[k].phase = 2 =>
       \E j \in PlanIndex :
         /\ processingPlan[j].name = calls[k].name
         /\ calls[k].data = Obj(ResolvedFields(processingPlan[j]))
         /\ calls[k].data.kids # <<>>
  /\ \A j \in PlanIndex :
       ResolvedFields(processingPlan[j]) = <<>> =>
         /\ UpdateCalls(processingPlan[j].name) = {}
         /\ processingPlan[j].phase = "created"
  /\ pc = "done" =>
       /\ error = ""
       /\ \A j \in PlanIndex :
            ResolvedFields(processingPlan[j]) # <<>> =>
              /\ Cardinality(UpdateCalls(processingPlan[j].name)) = 1
              /\ processingPlan[j].phase = "updated"
  /\ error # "" => \E k \in CallIndex : ~calls[k].ok

\* the loop is over: A was updated with its registered field only, the field
\* referring to the unregistered name left out; B got no update
C27_Witness ==
  /\ pc = "done"
  /\ Len(processingPlan) = 2
  /\ processingPlan[1].deferredFields = << <<"ref", "ghost">>, <<"other", "B">> >>
  /\ processingPlan[2].deferredFields = << <<"ref", "ghost">> >>
  /\ processingPlan[1].phase = "updated"
  /\ processingPlan[2].phase = "created"
  /\ Len(calls) = 1
  /\ calls[1].data = Obj(<< <<"other", Str("id2")>> >>)

\* ---- references in the data (C28)

\* this step issues the create call of fixture `name`
CreatesNow(name) ==
  /\ Len(calls') = Len(calls) + 1
  /\ calls'[Len(calls')].op = "create"
  /\ calls'[Len(calls')].name = name

\* C28: the data sent for a fixture holds, where the fixture's data holds the
\* string `@name`, the value registered for the name when there is one, at any
\* depth, and the string `@name` itself when the name is not registered
C28_ReferencesResolvedAtAnyDepth ==
  [][\A key \in MapKeys(fixtures) : CreatesNow(key.base) =>
       \A shape \in Shapes, r \in ReferredNames \cup {"A"} :
         MapGet(fixtures, key).data = Holding(shape, Ref(r)) =>
           calls'[Len(calls')].data
             = Holding(shape, IF MapHas(references, r) THEN Str(MapGet(references, r))
                              ELSE Ref(r))]_vars

\* ---- the loader cache (C29)

\* this step is a loadFixtures call (the directory is as it was), of this file
LoadStep == files' = files
Loaded == request'.names[1]

\* C29: a loadFixtures call on a cached path returns the cached configuration
\* and leaves the cache alone, whatever the file holds by now; a call that is
\* rejected stores nothing; a first successful call stores what it returns, and
\* no entry of the cache is ever replaced or dropped
C29_LoaderCache ==
  [][/\ LoadStep /\ MapHas(fixturesCache, Loaded) =>
          /\ error' = ""
          /\ fixtures' = MapGet(fixturesCache, Loaded).fixtures
          /\ fixturesCache' = fixturesCache
     /\ LoadStep /\ error' # "" => fixturesCache' = fixturesCache
     /\ LoadStep /\ ~MapHas(fixturesCache, Loaded) /\ error' = "" =>
          /\ Len(fixturesCache') = Len(fixturesCache) + 1
          /\ MapGet(fixturesCache', Loaded).fixtures = fixtures'
     /\ \A f \in MapKeys(fixturesCache) :
          MapHas(fixturesCache', f) /\ MapGet(fixturesCache', f) = MapGet(fixturesCache, f)]_vars

\* a.yml and b.yml were loaded, a.yml was written anew, and the last call,
\* of a.yml, returned the fixtures of the first load
C29_Witness ==
  /\ MapKeys(fixturesCache) = {"a.yml", "b.yml"}
  /\ files["a.yml"] = Rewritten
  /\ request.names = <<"a.yml">>
  /\ error = ""
  /\ fixtures = MapGet(fixturesCache, "a.yml").fixtures
  /\ fixtures # Rewritten.fixtures

\* ---- the entity-level include (C30)

\* the fixture whose data carries '@include', and the key it names
Includers ==
  {key \in MapKeys(fixtures) :
     MapGet(fixtures, key).data.t = "map"
       /\ MapHas(MapGet(fixtures, key).data.kids, "@include")}
IncludedKey(key) == PlainKey(MapGet(MapGet(fixtures, key).data.kids, "@include").s)

\* C30: the data sent for a fixture whose data carries '@include': K is the
\* data of K with the fixture's own fields laid over it and without the
\* directive, K's definition staying as it is; when there is no fixture K, no
\* call is made for the fixture and the run is rejected
C30_EntityInclude ==
  [][\A key \in Includers :
       /\ CreatesNow(key.base) =>
            /\ MapHas(fixtures, IncludedKey(key))
            /\ LET sent == calls'[Len(calls')].data.kids
                   own == MapDelete(MapGet(fixtures, key).data.kids, "@include")
                   base == MapGet(fixtures, IncludedKey(key)).data.kids
               IN /\ ~MapHas(sent, "@include")
                  /\ MapKeys(sent) = MapKeys(base) \cup MapKeys(own)
                  /\ \A k \in MapKeys(own) : MapGet(sent, k) = MapGet(own, k)
       /\ ~MapHas(fixtures, IncludedKey(key)) /\ pc' = "done" => FALSE]_vars

\* ---- the deferred fields during the run (C31)

\* C31: the plan, with each entry's deferredFields, is set by the step that
\* ends before the first API call, and every later step of the run (create,
\* find, update, registration) leaves each entry's name and deferredFields as
\* they are
C31_DeferredFieldsFixed ==
  [][/\ pc = "idle" =>
          /\ calls = <<>> /\ calls' = <<>>
          /\ processingPlan = <<>>
     /\ pc # "idle" =>
          /\ Len(processingPlan') = Len(processingPlan)
          /\ \A j \in PlanIndex :
               /\ processingPlan'[j].name = processingPlan[j].name
               /\ processingPlan'[j].deferredFields = processingPlan[j].deferredFields]_vars

\* a run that patched an entry with deferred fields in phase 2 after creating it
C31_Witness ==
  /\ pc = "done"
  /\ \E j \in PlanIndex :
       /\ processingPlan[j].deferredFields # <<>>
       /\ processingPlan[j].phase = "updated"
       /\ \E c \in CallIndex : calls[c].op = "create" /\ calls[c].name = processingPlan[j].name

\* ---- deferred references by field path (C32)

\* a path one step further down
Join(path, key) == IF path = "" THEN key ELSE path \o "." \o key

RECURSIVE Located(_, _)
\* the <<field path, name>> of every reference token of document d: keys of
\* nested mappings joined by dots, sequence elements by their index
Located(d, path) ==
  IF d.t = "ref" THEN {<<path, d.s>>}
  ELSE UNION {Located(d.kids[j][2],
                      Join(path, IF d.t = "seq" THEN ToString(j - 1) ELSE d.kids[j][1])) :
                j \in 1..Len(d.kids)}

\* the located references of an entry that close a cycle
DeferredAt(e) ==
  {x \in Located(e.fixture.data, "") : x[2] \in PlanNames /\ Reach(x[2], e.name)}

\* C32: every reference of a fixture that closes a cycle has its own entry in
\* deferredFields under its field path, and each phase-2 update of the fixture
\* carries the registered value of the referenced fixture under that path
C32_DeferredByFieldPath ==
  \A j \in PlanIndex :
    LET e == processingPlan[j] IN
    /\ Len(e.deferredFields) = Cardinality(DeferredAt(e))
    /\ \A x \in DeferredAt(e) :
         /\ MapHas(e.deferredFields, x[1])
         /\ MapGet(e.deferredFields, x[1]) = x[2]
         /\ \A k \in CallsFor("update", e.name, 2) :
              MapHas(references, x[2]) =>
                /\ MapHas(calls[k].data.kids, x[1])
                /\ MapGet(calls[k].data.kids, x[1]) = Str(MapGet(references, x[2]))

\* ---- two included documents defining the same fixture (C33)

\* a.yml includes b.yml and then c.yml
TwoBases == directiveFiles(files["a.yml"].includes) = <<"b.yml", "c.yml">>

\* C33: composing a.yml over the bases b.yml and c.yml, listed in this order,
\* gives a fixture that both bases define and a.yml does not the top-level
\* fields of the later-listed c.yml, and gives every fixture a.yml defines the
\* entity kind a.yml wrote
C33_LaterIncludeIsLastLayer ==
  [][ComposedNow("a.yml") /\ TwoBases =>
       LET merged == MapGet(fixturesCache', "a.yml").fixtures
           X == files["b.yml"].fixtures
           Y == files["c.yml"].fixtures
           current == files["a.yml"].fixtures
       IN /\ \A n \in (MapKeys(X) \cap MapKeys(Y)) \ MapKeys(current) :
               /\ MapGet(merged, n).entity = MapGet(Y, n).entity
               /\ MapGet(merged, n).existing = MapGet(Y, n).existing
               /\ MapGet(merged, n).query = MapGet(Y, n).query
          /\ \A n \in MapKeys(current) :
               MapGet(merged, n).entity = MapGet(current, n).entity]_vars

\* ---- termination of composition and dependency processing (C34)

\* '@includes' and '@depends' entries alike
DirectiveEdges == IncludeEdges \cup DependsEdges

\* C34: the nesting of processFixtures calls never holds a file twice and is
\* never deeper than the number of files (plus the array call), and a call
\* that returned was not asked for a file that is reachable from itself
\* through '@includes' and '@depends' entries, mixed or not
C34_CompositionTerminates ==
  /\ \A k1, k2 \in 1..Len(stack) :
       /\ stack[k1].kind = "file"
       /\ stack[k2].kind = "file"
       /\ stack[k1].file = stack[k2].file
       => k1 = k2
  /\ Len(stack) <= Cardinality(FileNames) + 1
  /\ pc = "returned" =>
       \A j \in 1..Len(request.names) : ~OnCycle(DirectiveEdges, request.names[j])

\* ---- termination of the cycle search (C35)

\* no entity twice in the sequence
NoRepeat(path) == \A k1, k2 \in 1..Len(path) : path[k1] = path[k2] => k1 = k2

\* C35: createProcessingPlan returns a plan with one entry per fixture for
\* every reference graph, also with self-references and with cycles beside the
\* fixture that is classified; every search path of the cycle test holds each
\* fixture at most once, so it is no longer than the number of fixtures; and
\* the test answers whether the source is reachable from the target
C35_CycleSearchTerminates ==
  pc # "idle" =>
    /\ Len(processingPlan) = Len(fixtures)
    /\ \A a, b \in PlanNames :
         /\ \A path \in searchPaths(PlanEntities, a, b, {}, <<>>) :
              /\ NoRepeat(path)
              /\ Len(path) <= Len(processingPlan)
         /\ createsCycle(PlanEntities, a, b, {}) <=> Reach(b, a)

\* A refers to B, B and C refer to each other, C refers to itself: the plan is
\* there, A has no deferred field, and the search from B for A went through
\* B and C
C35_Witness ==
  /\ pc = "done"
  /\ Edge("A", "B") /\ Edge("B", "C") /\ Edge("C", "B") /\ Edge("C", "C")
  /\ ~Edge("B", "A") /\ ~Edge("C", "A")
  /\ EntryOf("A").deferredFields = <<>>
  /\ EntryOf("B").deferredFields # <<>>
  /\ <<"B", "C">> \in searchPaths(PlanEntities, "A", "B", {}, <<>>)

\* ---- every created entity is deleted (C36)

DeleteCalls == {d \in CallIndex : calls[d].op = "delete"}
CreatedIds == {calls[k].resp[1].id : k \in {c \in CallIndex : calls[c].op = "create" /\ calls[c].ok}}

\* C36: once cleanup has returned and none of its delete requests was
\* rejected, each id a successful create call returned has been the subject of
\* exactly one delete request, also when a fixture name was created twice
C36_EveryCreatedEntityDeleted ==
  pc = "cleaned" /\ (\A d \in DeleteCalls : calls[d].ok) =>
    \A id \in CreatedIds : Cardinality({d \in DeleteCalls : calls[d].id = id}) = 1
====
